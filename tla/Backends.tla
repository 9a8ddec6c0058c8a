------------------------------ MODULE Backends ------------------------------
(***************************************************************************)
(* Worker processes on one of the three databases, and what must hold on   *)
(* each of them.                                                           *)
(***************************************************************************)
EXTENDS MySQLRepo, SQLiteRepo, PicodataRepo

Next == Tick \/ MyNext \/ SqNext \/ PicoNext \/ \E p \in Procs : Fail(p)

Spec == Init /\ [][Next]_vars

Atomic == backend # "picodata"     \* SupportsAtomicDLQ

Promise == INSTANCE RepoPromise
    WITH Tokens <- 1..MaxToken, Times <- 0..(MaxTime + ReserveFor + Delay),
         clock <- Col(now), row <- jobs, dlq <- failed, atomic <- Atomic

-----------------------------------------------------------------------------

(***************************************************************************)
(* Each repository keeps the promise of RepoPromise: whatever statements   *)
(* its calls are made of, and wherever a process fails between them, the   *)
(* committed tables change as if every call were one step, a claim takes   *)
(* free rows only, and only the holder of a live lease changes a row.      *)
(***************************************************************************)
KeepsPromise == Promise!Promised

(***************************************************************************)
(* A row a process believes to hold is its row: the claim, or an extension *)
(* that affected all rows, has told it a deadline, and until then the      *)
(* committed row carries its token and no earlier deadline.  SQLite tells  *)
(* a plain claim a deadline below its stored resolution, so there the      *)
(* belief ends with the last full millisecond.                             *)
(***************************************************************************)
HeldIsLeased ==
    \A p \in Procs : Col(now) < Col(proc[p].due) /\ proc[p].pc = "idle" =>
        \A j \in proc[p].held :
            /\ jobs[j].live /\ jobs[j].tok = proc[p].tok
            /\ jobs[j].until >= Col(proc[p].due)

(***************************************************************************)
(* No job gets lost: a row leaves jobs only when its process reported it   *)
(* as done or when a dead letter for it is in jobs_failed.  Where dead     *)
(* letters are atomic there is one at most, and never beside the row.      *)
(***************************************************************************)
NoJobLost ==
    \A j \in Jobs :
        /\ jobs[j] # NoRow /\ ~jobs[j].live => j \in succeeded \/ failed[j] > 0
        /\ Atomic /\ failed[j] > 0 => ~jobs[j].live /\ failed[j] = 1

(***************************************************************************)
(* SQLite's write lock is always that of a call in progress.  The manual   *)
(* BEGIN IMMEDIATE is invisible to database/sql, so a connection that went *)
(* back to the pool inside its transaction would keep all writers out.     *)
(***************************************************************************)
WriterInCall ==
    writer # None => /\ proc[writer].kind \in {"claim", "bounded", "dlq", "defer", "apply"}
                     /\ proc[writer].pc \in {"pick", "commit", "delete", "update", "settle"}

(***************************************************************************)
(* The outcomes of a batch are applied together: when the call of          *)
(* ApplyBatchJobOutcomes changes the committed jobs at all, it changes     *)
(* every row it was given an outcome for, and the dead letters with them.  *)
(***************************************************************************)
OutcomesWhole ==
    [][\A p \in Procs : proc[p].kind = "apply" /\ proc[p]' # proc[p] /\ jobs' # jobs =>
          \A j \in proc[p].ids : /\ jobs'[j] # jobs[j]
                                 /\ proc[p].plan[j].kind = "dlq" => failed'[j] = failed[j] + 1]_vars

(***************************************************************************)
(* A claim takes only rows whose available_at has come by the time it      *)
(* takes effect.  The claims of every backend select ready rows, but the   *)
(* Picodata reservation compares attempts and reserved_at only, and a      *)
(* deferral that ran in between has given the attempt back.                *)
(***************************************************************************)
ClaimsReadyRows ==
    [][\A j \in Jobs : jobs'[j].tok \notin {jobs[j].tok, NoToken} => jobs[j].avail <= Col(now)]_vars
=============================================================================
