------------------------------- MODULE Replay -------------------------------
(***************************************************************************)
(* Replay of dead-lettered jobs on PostgreSQL, beside the puts, the        *)
(* pruning and the fan-out of EnqueueSQL.                                  *)
(*                                                                         *)
(* A request identifies one intended replay of a jobs_failed row.  The     *)
(* transaction locks that row, looks for the record of the request, lets   *)
(* the host admit the source and name its business key, refuses while the  *)
(* original job or an earlier replay is active, and then stages a fresh    *)
(* job under the request's own deduplication key, with a record of the     *)
(* request that outlives the job.  A jobs_failed row is identified by its  *)
(* job; the request by its deduplication key.                              *)
(***************************************************************************)
EXTENDS EnqueueSQL

CONSTANTS
    BusinessKeys,    \* what a host may name as the business key
    Past             \* entries of the jobs dead-lettered before, by their keys

VARIABLES
    failed,      \* jobs with a row in jobs_failed
    records,     \* outbox_job_replays by request
    rep          \* rep[p]: the replay p is in

rvars == <<failed, records, rep>>

vars == <<evars, rvars>>

NoRecord == [failed |-> 0, job |-> 0, business |-> None, hint |-> None]

NoReplay == [req |-> None, failed |-> 0, business |-> None, hint |-> None, locked |-> 0]

\* A host that replays starts with dead letters to replay.
Init ==
    /\ uses \in Uses
    /\ EInit(IF "replay" \in uses.calls THEN Past ELSE <<>>)
    /\ failed = IF "replay" \in uses.calls THEN {Past[k].job : k \in DOMAIN Past} ELSE {}
    /\ records = [r \in RequestKeys |-> NoRecord]
    /\ rep = [p \in Procs |-> NoReplay]

-----------------------------------------------------------------------------
\* Ordinary jobs may end in jobs_failed; the dead letter is atomic.
DeadLetter(x) ==
    /\ database = "pgsql" /\ "replay" \in uses.calls
    /\ active[x].key \in PlainKeys \cup RequestKeys
    /\ active' = [active EXCEPT ![x] = NoRow]
    /\ failed' = failed \cup {x}
    /\ UNCHANGED <<database, registry, nextJob, tx, writer, proc, uses, records, rep>>

\* The host asks for a replay.
CallReplay(p) ==
    /\ database = "pgsql" /\ "replay" \in uses.calls /\ proc[p] = Idle
    /\ \E r \in RequestKeys, x \in failed :
          rep' = [rep EXCEPT ![p] = [NoReplay EXCEPT !.req = r, !.failed = x]]
    /\ proc' = [proc EXCEPT ![p] = [Idle EXCEPT !.pc = "lock", !.kind = "replay"]]
    /\ UNCHANGED <<database, registry, active, nextJob, tx, writer, uses, failed, records>>

Replaying(p, pc) == proc[p].kind = "replay" /\ proc[p].pc = pc

\* A step of a replay that changes nothing but where p is and what it knows.
ReplayStep(p, pc, r) ==
    /\ proc' = [proc EXCEPT ![p].pc = pc]
    /\ rep' = [rep EXCEPT ![p] = r]
    /\ UNCHANGED <<database, registry, active, nextJob, tx, writer, uses, failed, records>>

Refuse(p) ==
    /\ Abandon(p)
    /\ rep' = [rep EXCEPT ![p] = NoReplay]
    /\ UNCHANGED <<database, registry, active, nextJob, uses, failed, records>>

\* The key hint: what the registry still has for the original job.
Hint(x) ==
    IF \E k \in Keys : registry[k].job = x THEN CHOOSE k \in Keys : registry[k].job = x ELSE None

\* Mutant of lockSource: the row is read without FOR UPDATE.
lockSourceRead(p) ==
    /\ Replaying(p, "lock")
    /\ ReplayStep(p, "prior", [rep[p] EXCEPT !.hint = Hint(rep[p].failed)])

\* SELECT ... FOR UPDATE of the failed row; validateSource leaves out fan-out jobs.
lockSource(p) ==
    /\ Replaying(p, "lock")
    /\ \A q \in Procs \ {p} : rep[q].locked # rep[p].failed
    /\ ReplayStep(p, "prior", [rep[p] EXCEPT !.locked = rep[p].failed, !.hint = Hint(rep[p].failed)])

\* The request is known: its record is the answer if the source agrees and the
\* host admits it with the same business key.
Prior(p) ==
    LET prior == records[rep[p].req]
    IN /\ Replaying(p, "prior")
       /\ \/ prior = NoRecord /\ ReplayStep(p, "baseline", rep[p])
          \/ /\ prior # NoRecord
             /\ prior.failed # rep[p].failed \/ \E b \in BusinessKeys : b # prior.business
             /\ Refuse(p)
          \/ /\ prior.failed = rep[p].failed
             /\ ReplayStep(p, "commit", [rep[p] EXCEPT !.hint = prior.hint])

\* Earlier records of the same failed row.
RecordsOf(x) == {r \in RequestKeys : records[r].failed = x}

\* Mutant of Admissible: the business key is not compared with an earlier one.
AdmissibleAny(r, b) == TRUE

\* The business key is that of the earlier record r.
Admissible(r, b) == records[r].business = b

\* sourceBaseline reads one earlier record, then the host admits with key b.
Baseline(p) ==
    LET earlier == RecordsOf(rep[p].failed)
    IN /\ Replaying(p, "baseline")
       /\ \E b \in BusinessKeys :
             \/ earlier = {} /\ ReplayStep(p, "active", [rep[p] EXCEPT !.business = b])
             \/ \E r \in earlier :
                   \/ ~Admissible(r, b) /\ Refuse(p)
                   \/ /\ Admissible(r, b)
                      /\ ReplayStep(p, "active", [rep[p] EXCEPT !.hint = records[r].hint,
                                                                !.business = b])

\* The original or an earlier replay is still in the active table.
SourceActive(x) ==
    active[x] # NoRow \/ \E r \in RecordsOf(x) : active[records[r].job] # NoRow

\* Then a fresh job is staged: available now, so its fingerprint is new.
ActiveCheck(p) ==
    /\ Replaying(p, "active")
    /\ \/ SourceActive(rep[p].failed) /\ Refuse(p)
       \/ /\ ~SourceActive(rep[p].failed)
          /\ proc' = [proc EXCEPT ![p].pc = "put",
                                  ![p].todo = <<[key |-> rep[p].req, fp |-> nextJob]>>]
          /\ UNCHANGED <<database, registry, active, nextJob, tx, writer, uses, rvars>>

\* request_id is the primary key of outbox_job_replays.
Recordable(p) == records[rep[p].req] = NoRecord

\* Mutant of Recorded: the record is left out of the transaction, and lost.
RecordedNot(p, x) == records

\* The INSERT into outbox_job_replays for the staged job x.
Recorded(p, x) ==
    [records EXCEPT ![rep[p].req] = [failed |-> rep[p].failed, job |-> x,
                                     business |-> rep[p].business, hint |-> rep[p].hint]]

\* stage commits the job and the record together; whether the host learns of
\* it makes no difference to what is stored.
CommitReplay(p) ==
    LET n == CHOOSE n \in tx[p].rows : TRUE
    IN /\ Replaying(p, "commit") /\ tx[p].rows # {}
       /\ \/ ~Recordable(p) /\ Refuse(p)
          \/ /\ Recordable(p)
             /\ Committed(p)
             /\ records' = Recorded(p, n.job)
             /\ proc' = [proc EXCEPT ![p] = Idle]
             /\ rep' = [rep EXCEPT ![p] = NoReplay]
             /\ UNCHANGED <<database, nextJob, uses, failed>>

\* A repeated request commits nothing, and neither does one whose put found
\* its key taken, which is a conflict.
CommitRepeated(p) ==
    /\ Replaying(p, "commit") /\ tx[p].rows = {}
    /\ Refuse(p)

\* A conflict of the put ends the replay as well.
EnqueueStep ==
    /\ ENext
    /\ rep' = [p \in Procs |-> IF proc'[p] = Idle THEN NoReplay ELSE rep[p]]
    /\ UNCHANGED <<failed, records>>

Next ==
    \/ EnqueueStep
    \/ \E x \in Ids : DeadLetter(x)
    \/ \E p \in Procs :
          \/ CallReplay(p) \/ lockSource(p) \/ Prior(p) \/ Baseline(p) \/ ActiveCheck(p)
          \/ CommitReplay(p) \/ CommitRepeated(p)

-----------------------------------------------------------------------------
(***************************************************************************)
(* A request is replayed once: a job appears under its key only together   *)
(* with its first record, and the record never changes, also when the host *)
(* repeats the request after an unknown commit, with another source, or    *)
(* after the job was done and its deduplication key pruned.                *)
(***************************************************************************)
ReplayedOnce ==
    [][\A r \in RequestKeys :
          /\ records[r] # NoRecord => records'[r] = records[r]
          /\ \A x \in Ids : active[x] = NoRow /\ active'[x].key = r =>
                records[r] = NoRecord /\ records'[r].job = x]_vars

(***************************************************************************)
(* One delivery at a time: of a failed row's original job and all its      *)
(* replays at most one is in the active table, whatever the requests of    *)
(* concurrent hosts.                                                       *)
(***************************************************************************)
OneActiveReplay ==
    \A x \in failed :
        Cardinality({y \in {x} \cup {records[r].job : r \in RecordsOf(x)} : active[y] # NoRow}) <= 1

(***************************************************************************)
(* Every replay of a failed row keeps the business key and the original    *)
(* deduplication key of the first, even though pruning may have removed    *)
(* that key from the registry in between.                                  *)
(***************************************************************************)
SourceKept ==
    \A r, s \in RequestKeys :
        records[r].failed = records[s].failed /\ records[r] # NoRecord =>
            records[r].business = records[s].business /\ records[r].hint = records[s].hint

Spec == Init /\ [][Next]_vars
=============================================================================
