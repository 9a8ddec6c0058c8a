---------------------------- MODULE RepoPromise ----------------------------
(***************************************************************************)
(* What a jobs repository promises, whatever database it is built on: the  *)
(* active table only changes by a creation, by a claim that takes free     *)
(* rows under a token nobody has held before, and by steps that carry the  *)
(* token of a lease which was still live at the time their caller read.    *)
(* Each of them happens at once.                                           *)
(*                                                                         *)
(* A backend with transactions ("atomic", what SupportsAtomicDLQ reports)  *)
(* claims only rows whose available_at has come, and moves a row to        *)
(* jobs_failed in one step.  One without them may claim a row whose        *)
(* available_at was put off in the meantime, and inserts the jobs_failed   *)
(* row in a step of its own.                                               *)
(***************************************************************************)
EXTENDS JobsRepo

CONSTANTS
    Tokens,      \* the lease tokens
    Times        \* the points in time

VARIABLES
    clock,       \* the time, in the resolution of the table's columns
    row,         \* committed rows of jobs
    dlq,         \* dlq[j]: committed rows of jobs_failed for job j
    granted,     \* the tokens under which rows were claimed so far
    atomic       \* the repository runs transactions

vars == <<clock, row, dlq, granted, atomic>>

Past == {t \in Times : t <= clock}

\* Rows nobody holds at time "at", and due by then where transactions see to it.
Free(at) ==
    {j \in Jobs : row[j].live /\ row[j].until <= at /\ (atomic => row[j].avail <= at)}

PInit ==
    /\ clock \in Times
    /\ row = [j \in Jobs |-> NoRow]
    /\ dlq = [j \in Jobs |-> 0]
    /\ granted = {}
    /\ atomic \in BOOLEAN

PTick ==
    /\ clock' \in Times /\ clock' > clock
    /\ UNCHANGED <<row, dlq, granted, atomic>>

PCreate(j, availableAt) ==
    /\ row[j] = NoRow
    /\ row' = CreateJob(row, j, availableAt)
    /\ UNCHANGED <<clock, dlq, granted, atomic>>

\* A claim takes all its rows at once, under a token of its own.
PClaim(S, token, at) ==
    /\ token \notin granted /\ granted' = granted \cup {token}
    /\ S \subseteq Free(at)
    /\ \E until \in Times : row' = Reserve(row, S, token, until)
    /\ UNCHANGED <<clock, dlq, atomic>>

\* The holder extends its leases, or gives unstarted rows back.
PKeep(S, token, at) ==
    /\ UNCHANGED <<granted, clock, dlq, atomic>>
    /\ S \subseteq Fenced(row, S, token, at)
    /\ row' = ReleaseUnstarted(row, S) \/ \E until \in Times : row' = ExtendLeases(row, S, until)

\* The outcomes of a row: it is removed, or waits for its next attempt, with
\* the attempt counted (retry) or given back (defer).
Outcomes(r) ==
    {[r EXCEPT !.live = FALSE]}
        \cup {[r EXCEPT !.attempts = n, !.avail = t, !.until = NoTime, !.tok = NoToken] :
                 n \in {r.attempts, r.attempts - 1}, t \in Times}

\* The holder finishes rows; dead letters appear in jobs_failed with it.
PFinish(S, D, token, at) ==
    /\ UNCHANGED <<granted, clock, atomic>>
    /\ S \subseteq Fenced(row, S, token, at)
    /\ D # {} => atomic
    /\ \A j \in Jobs : IF j \in S THEN row'[j] \in Outcomes(row[j]) ELSE row'[j] = row[j]
    /\ \A j \in D : ~row'[j].live
    /\ row' = [j \in Jobs |-> row'[j]]
    /\ dlq' = [j \in Jobs |-> IF j \in D THEN dlq[j] + 1 ELSE dlq[j]]

\* Without transactions the dead letter is written first, by itself.
PDeadLetter(j) ==
    /\ ~atomic
    /\ dlq' = [dlq EXCEPT ![j] = @ + 1]
    /\ UNCHANGED <<clock, row, granted, atomic>>

PNext ==
    \/ PTick
    \/ \E j \in Jobs : PDeadLetter(j)
    \/ /\ row' # row
       /\ \/ \E j \in Jobs, t \in Times : PCreate(j, t)
          \/ \E S \in SUBSET Jobs \ {{}}, token \in Tokens, at \in Past :
                \/ PClaim(S, token, at)
                \/ PKeep(S, token, at)
                \/ \E D \in SUBSET S : PFinish(S, D, token, at)

Promised == PInit /\ [][PNext]_vars
=============================================================================
