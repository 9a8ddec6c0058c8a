----------------------------- MODULE BatchRepo -----------------------------
(***************************************************************************)
(* The two statements true handler batches add to JobsRepo: a claim        *)
(* bounded by a number of messages and a number of payload bytes, and the  *)
(* application of all outcomes of a batch in one transaction.  Jobs are    *)
(* numbers; the number stands for created_at and id in the durable order.  *)
(***************************************************************************)
EXTENDS JobsRepo, FiniteSetsExt

CONSTANT PayloadSize     \* PayloadSize[j]: bytes of the payload of job j

ASSUME BatchRepoAssumption ==
    /\ Jobs \subseteq Nat
    /\ PayloadSize \in [Jobs -> Nat]

Bytes(S) == MapThenSumSet(LAMBDA j : PayloadSize[j], S)

\* order by available_at, created_at, id
Before(t, i, j) == t[i].avail < t[j].avail \/ (t[i].avail = t[j].avail /\ i < j)

Ahead(t, U, j) == {i \in U : Before(t, i, j)}

(***************************************************************************)
(* FindAndReserveJobsForCapabilityBounded, on the ready rows U that no     *)
(* other transaction holds locked: the longest prefix within both limits,  *)
(* and the first row whatever its size.                                    *)
(***************************************************************************)
Bounded(t, U, maxMessages, maxBytes) ==
    {j \in U : /\ Cardinality(Ahead(t, U, j)) < maxMessages
               /\ \/ Ahead(t, U, j) = {}
                  \/ Bytes(Ahead(t, U, j) \cup {j}) <= maxBytes}

-----------------------------------------------------------------------------
OutcomeKinds == {"none", "success", "retry", "defer", "dlq"}

\* The outcome of every job of a batch, "none" for the other jobs.
Plan == [Jobs -> [kind: OutcomeKinds, avail: Nat]]

NoPlan == [j \in Jobs |-> [kind |-> "none", avail |-> 0]]

Planned(plan) == {j \in Jobs : plan[j].kind # "none"}

\* The rows the statement of ApplyBatchJobOutcomes would change.
Matched(t, plan, token, now) ==
    {j \in Fenced(t, Planned(plan), token, now) :
        plan[j].kind \in {"retry", "defer"} => t[j].attempts > 0}

\* Mutant of Settled: what was matched is kept, although some rows were not.
SettledPart(t, plan, token, now) == Matched(t, plan, token, now)

\* ApplyBatchJobOutcomes: a row that did not match rolls everything back.
Settled(t, plan, token, now) ==
    IF Matched(t, plan, token, now) = Planned(plan) THEN Planned(plan) ELSE {}

\* The table after the outcomes of the rows S have been applied.
ApplyOutcomes(t, plan, S) ==
    [j \in Jobs |->
        IF j \notin S THEN t[j]
        ELSE CASE plan[j].kind \in {"success", "dlq"} -> [t[j] EXCEPT !.live = FALSE]
               [] plan[j].kind = "retry" ->
                    [t[j] EXCEPT !.avail = plan[j].avail,
                                 !.until = NoTime, !.tok = NoToken]
               [] plan[j].kind = "defer" ->
                    [t[j] EXCEPT !.attempts = @ - 1, !.avail = plan[j].avail,
                                 !.until = NoTime, !.tok = NoToken]]

=============================================================================
