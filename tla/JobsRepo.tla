------------------------------ MODULE JobsRepo ------------------------------
(***************************************************************************)
(* The active jobs table and the statements the repository runs on it.     *)
(*                                                                         *)
(* A table is a function from job identifiers to rows.  Every operator is  *)
(* one SQL statement (or one transaction) of the PostgreSQL repository and *)
(* maps a table to a table; the caller decides when it runs.  A removed    *)
(* row keeps the token of the lease it was removed under, so that the      *)
(* specifications can say which claim removed it.                          *)
(***************************************************************************)
EXTENDS Naturals, FiniteSets

CONSTANT Jobs    \* identifiers of the jobs that may ever be enqueued

ASSUME JobsAssumption == IsFiniteSet(Jobs)

NoToken == 0     \* types.LeaseTokenNil
NoTime  == 0     \* reserved_at IS NULL, and Go's zero time

Row == [live: BOOLEAN, attempts: Nat, avail: Nat, until: Nat, tok: Nat]

Table == [Jobs -> Row]

NoRow == [live |-> FALSE, attempts |-> 0, avail |-> 0,
          until |-> NoTime, tok |-> NoToken]

(***************************************************************************)
(* Requests a worker sends to the repository.  "now" is the time the       *)
(* caller read before it issued the statement, never the database's own    *)
(* clock; "until" is the new lease deadline of a claim or an extension and *)
(* the new available_at of a retry or a defer.                             *)
(***************************************************************************)
Kinds == {"claim", "extend", "release", "ack", "dlq", "retry", "defer"}

Request == [kind: Kinds, tok: Nat, ids: SUBSET Jobs, now: Nat, until: Nat]

-----------------------------------------------------------------------------
\* CreateJobVersioned: a new row, unreserved, attempts 0.
CreateJob(t, j, availableAt) ==
    [t EXCEPT ![j] = [live |-> TRUE, attempts |-> 0, avail |-> availableAt,
                      until |-> NoTime, tok |-> NoToken]]

\* Mutant of Ready: the reservation is not looked at.
ReadyReserved(t, now) == {j \in Jobs : t[j].live /\ t[j].avail <= now}

\* The claim's WHERE clause: available, and unreserved or reserved no longer.
Ready(t, now) ==
    {j \in Jobs : t[j].live /\ t[j].avail <= now /\ t[j].until <= now}

\* Mutant of Fenced: the token is not compared.
FencedByTime(t, ids, token, now) == {j \in ids : t[j].live /\ t[j].until > now}

\* The fence every statement on a held lease carries.
Fenced(t, ids, token, now) ==
    {j \in ids : t[j].live /\ t[j].tok = token /\ t[j].until > now}

\* FindAndReserveJobsForCapabilities, on the candidate rows S.
Reserve(t, S, token, until) ==
    [j \in Jobs |-> IF j \in S
                    THEN [t[j] EXCEPT !.attempts = @ + 1,
                                      !.until = until, !.tok = token]
                    ELSE t[j]]

\* Mutant of ExtendLeases: the renewal is added to the deadline.
ExtendLeasesAdded(t, S, until) ==
    [j \in Jobs |-> IF j \in S THEN [t[j] EXCEPT !.until = @ + until] ELSE t[j]]

\* ExtendJobLeases
ExtendLeases(t, S, until) ==
    [j \in Jobs |-> IF j \in S THEN [t[j] EXCEPT !.until = until] ELSE t[j]]

\* ReleaseUnstartedJobsWithLease: the attempt the claim counted is given back.
ReleaseUnstarted(t, S) ==
    [j \in Jobs |-> IF j \in S
                    THEN [t[j] EXCEPT !.attempts = @ - 1,
                                      !.until = NoTime, !.tok = NoToken]
                    ELSE t[j]]

\* DeleteJobWithLease
DeleteJobs(t, S) ==
    [j \in Jobs |-> IF j \in S THEN [t[j] EXCEPT !.live = FALSE] ELSE t[j]]

\* RescheduleJobWithLease: the counted attempt stays.
Reschedule(t, S, availableAt) ==
    [j \in Jobs |-> IF j \in S
                    THEN [t[j] EXCEPT !.avail = availableAt,
                                      !.until = NoTime, !.tok = NoToken]
                    ELSE t[j]]

\* Mutant of Defer: the attempt is given back twice.
DeferTwice(t, S, availableAt) ==
    [j \in Jobs |-> IF j \in S
                    THEN [t[j] EXCEPT !.attempts = @ - 2,
                                      !.avail = availableAt,
                                      !.until = NoTime, !.tok = NoToken]
                    ELSE t[j]]

\* DeferJobWithLease: the attempt is given back, and the row waits.
Defer(t, S, availableAt) ==
    [j \in Jobs |-> IF j \in S
                    THEN [t[j] EXCEPT !.attempts = @ - 1,
                                      !.avail = availableAt,
                                      !.until = NoTime, !.tok = NoToken]
                    ELSE t[j]]

-----------------------------------------------------------------------------
(***************************************************************************)
(* The rows a request may touch.  A claim takes at most "limit" ready rows *)
(* of the requested capabilities; FOR UPDATE SKIP LOCKED leaves out the    *)
(* rows other transactions hold locked, so any such subset is possible.    *)
(* Every other request touches exactly the rows its fence still matches;   *)
(* statements that give an attempt back also require attempts > 0.         *)
(***************************************************************************)
Affectable(t, r, limit) ==
    CASE r.kind = "claim" ->
           {S \in SUBSET (Ready(t, r.now) \cap r.ids) : Cardinality(S) <= limit}
      [] r.kind \in {"release", "defer"} ->
           {{j \in Fenced(t, r.ids, r.tok, r.now) : t[j].attempts > 0}}
      [] OTHER -> {Fenced(t, r.ids, r.tok, r.now)}

\* The table after request r has touched the rows S.
Apply(t, r, S) ==
    CASE r.kind = "claim"   -> Reserve(t, S, r.tok, r.until)
      [] r.kind = "extend"  -> ExtendLeases(t, S, r.until)
      [] r.kind = "release" -> ReleaseUnstarted(t, S)
      [] r.kind = "retry"   -> Reschedule(t, S, r.until)
      [] r.kind = "defer"   -> Defer(t, S, r.until)
      [] r.kind \in {"ack", "dlq"} -> DeleteJobs(t, S)
=============================================================================
