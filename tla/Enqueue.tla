------------------------------ MODULE Enqueue ------------------------------
(***************************************************************************)
(* Idempotent enqueueing: unique puts, unique batches, pruning of the      *)
(* idempotency registry, and durable fan-out, which is made of unique      *)
(* puts, on PostgreSQL, MySQL or SQLite.                                   *)
(*                                                                         *)
(* A put registers its deduplication key, with the identifier and the      *)
(* fingerprint of its job, and inserts the job only when it registered the *)
(* key itself.  The entry outlives the job: it stays as a tombstone until  *)
(* the host prunes it.  Puts run in a transaction of their own or in one   *)
(* of the caller's, so what other transactions have staged is not visible, *)
(* and a put on a key another transaction has written waits for its end.   *)
(*                                                                         *)
(* Jobs are numbered as they are staged; the number stands for created_at. *)
(* A fingerprint stands for the digest of name, version, payload and       *)
(* available_at, and therefore for the content of the job.                 *)
(***************************************************************************)
EXTENDS Naturals, Sequences, FiniteSets, SequencesExt

CONSTANTS
    Procs,         \* producers, workers running the dispatcher, replaying hosts
    Databases,     \* subset of {"pgsql", "mysql", "sqlite"} to start from
    PlainKeys,     \* keys of ordinary unique puts
    Contents,      \* contents of ordinary jobs
    Events,        \* fan-out events, also the deduplication keys of their snapshots
    Snapshots,     \* the target lists (sequences) an event may be put with
    RequestKeys,   \* deduplication keys of replays
    Uses,          \* what a host may do: [calls, jobs], its calls and a bound on the jobs
    None           \* no key, no content, no process

NoEntry == [job |-> 0, fp |-> None]
NoRow   == [key |-> None, fp |-> None]

\* fanoutDeliveryDeduplicationKey: one key per event and target.
DeliveryKey(e, t) == <<e, t>>

DeliveryKeys == {DeliveryKey(e, t) : e \in Events, t \in UNION {Range(s) : s \in Snapshots}}

Keys == PlainKeys \cup Events \cup DeliveryKeys \cup RequestKeys

Ids == 1..Max({u.jobs : u \in Uses})

VARIABLES
    database,      \* the backend
    registry,      \* committed idempotency keys
    active,        \* active[x]: committed row of job x, NoRow if there is none
    nextJob,       \* the next job identifier
    tx,            \* tx[p]: keys p's transaction has locked, entries and rows it has staged
    writer,        \* SQLite: the process with the write lock
    proc,          \* proc[p]: the call p is in
    uses           \* what this host does

evars == <<database, registry, active, nextJob, tx, writer, proc, uses>>

NoTx == [lock |-> {}, keys |-> {}, rows |-> {}]

Idle == [pc |-> "idle", kind |-> "none", todo |-> <<>>, id |-> 0, got |-> {}, job |-> 0]

\* The registry may start with the tombstones of jobs that are over.
EInit(past) ==
    /\ database \in Databases
    /\ registry = [k \in Keys |-> IF k \in DOMAIN past THEN past[k] ELSE NoEntry]
    /\ active = [x \in Ids |-> NoRow]
    /\ nextJob = Cardinality(DOMAIN past) + 1
    /\ tx = [p \in Procs |-> NoTx]
    /\ writer = None
    /\ proc = [p \in Procs |-> Idle]

-----------------------------------------------------------------------------
\* What p's statements see, and whom they wait for.
ViewKey(p, k) ==
    IF \E n \in tx[p].keys : n.key = k
    THEN LET n == CHOOSE n \in tx[p].keys : n.key = k IN [job |-> n.job, fp |-> n.fp]
    ELSE registry[k]

\* A statement waits for the transactions that have locked one of its keys.
Lockable(p, K) == \A q \in Procs \ {p} : tx[q].lock \cap K = {}

Staged(p, K, keys, rows) ==
    [tx EXCEPT ![p] = [lock |-> @.lock \cup K, keys |-> @.keys \cup keys, rows |-> @.rows \cup rows]]

NewRow(item, x) == [key |-> item.key, fp |-> item.fp, job |-> x]

\* A transaction ends without a trace: an error, a conflict, a crash.
Abandon(p) ==
    /\ proc' = [proc EXCEPT ![p] = Idle]
    /\ tx' = [tx EXCEPT ![p] = NoTx]
    /\ writer' = IF writer = p THEN None ELSE writer

\* The tables after p's transaction has committed.
Committed(p) ==
    /\ registry' = [k \in Keys |-> ViewKey(p, k)]
    /\ active' = [x \in Ids |->
                     IF \E n \in tx[p].rows : n.job = x
                     THEN LET n == CHOOSE n \in tx[p].rows : n.job = x
                          IN [key |-> n.key, fp |-> n.fp]
                     ELSE active[x]]
    /\ tx' = [tx EXCEPT ![p] = NoTx]
    /\ writer' = IF writer = p THEN None ELSE writer

\* The next put of p's call is done, with job x as its answer.
Answer(p, x) ==
    LET item == Head(proc[p].todo)
    IN proc' = [proc EXCEPT ![p] = [@ EXCEPT !.pc = IF Len(proc[p].todo) = 1 THEN "commit" ELSE "put",
                                             !.todo = Tail(@), !.id = 0,
                                             !.got = @ \cup {[key |-> item.key, fp |-> item.fp, job |-> x]}]]

-----------------------------------------------------------------------------
\* Calls.

Call(p, kind, todo, x) ==
    /\ kind \in uses.calls /\ proc[p] = Idle
    /\ proc' = [proc EXCEPT ![p] = [Idle EXCEPT !.pc = "put", !.kind = kind, !.todo = todo, !.job = x]]
    /\ UNCHANGED <<database, registry, active, nextJob, tx, writer, uses>>

PlainItems == [key: PlainKeys, fp: Contents]

\* PutVersionedUnique, with a transaction of its own.
PutVersionedUnique(p) == \E i \in PlainItems : Call(p, "put", <<i>>, 0)

\* SQLTxPutter, or puts inside the host's RunInTx: the caller owns the
\* transaction and gives it up on an error.
PutInCallerTx(p) == \E i, j \in PlainItems : Call(p, "host", <<i, j>>, 0)

\* PutVersionedUniqueBatch refuses items that share a key.
PutVersionedUniqueBatch(p) ==
    \E i, j \in PlainItems : i.key # j.key /\ Call(p, "batch", <<i, j>>, 0)

\* PutFanout: the normalised snapshot is the content, the event is the key.
PutFanout(p) ==
    \E e \in Events, s \in Snapshots : Call(p, "event", <<[key |-> e, fp |-> s]>>, 0)

\* Mutant of Deliveries: the first target only.
DeliveriesFirst(e, s) == <<[key |-> DeliveryKey(e, s[1]), fp |-> s[1]]>>

\* One delivery per target of the snapshot, in its order.
Deliveries(e, s) == [n \in DOMAIN s |-> [key |-> DeliveryKey(e, s[n]), fp |-> s[n]]]

\* fanoutDispatcher.Handle, for an active snapshot job; a job whose lease has
\* expired may be handled by two workers at once.
Dispatch(p) ==
    \E x \in Ids : /\ active[x].key \in Events
                   /\ Call(p, "fanout", Deliveries(active[x].key, active[x].fp), x)

-----------------------------------------------------------------------------
\* PostgreSQL: registering, comparing and inserting is one statement.

At(p, db, kinds, pc) == database = db /\ proc[p].kind \in kinds /\ proc[p].pc = pc

Single == {"put", "host", "event", "fanout", "replay"}

\* Mutant of Conflicts: the fingerprints are not compared.
ConflictsNever(p, item) == FALSE

\* The key is taken by a job with other content.
Conflicts(p, item) ==
    LET e == ViewKey(p, item.key) IN e # NoEntry /\ e.fp # item.fp

PgUnique(p) ==
    LET item == Head(proc[p].todo)
        e    == ViewKey(p, item.key)
    IN /\ At(p, "pgsql", Single, "put")
       /\ Lockable(p, {item.key})
       /\ \/ /\ Conflicts(p, item)
             /\ Abandon(p)
             /\ UNCHANGED nextJob
          \/ /\ ~Conflicts(p, item) /\ e # NoEntry
             /\ tx' = Staged(p, {item.key}, {}, {})
             /\ Answer(p, e.job)
             /\ UNCHANGED <<nextJob, writer>>
          \/ /\ e = NoEntry /\ nextJob <= uses.jobs
             /\ tx' = Staged(p, {item.key}, {NewRow(item, nextJob)}, {NewRow(item, nextJob)})
             /\ Answer(p, nextJob)
             /\ nextJob' = nextJob + 1
             /\ UNCHANGED writer
       /\ UNCHANGED <<database, registry, active, uses>>

Items(p) == Range(proc[p].todo)

\* Mutant of Unregistered: the tombstone of a job that is gone counts as a free key.
UnregisteredActive(p) ==
    {i \in DOMAIN proc[p].todo :
        LET e == ViewKey(p, proc[p].todo[i].key) IN e = NoEntry \/ active[e.job] = NoRow}

\* The items of a batch whose key is not registered, and new rows for these.
Unregistered(p) == {i \in DOMAIN proc[p].todo : ViewKey(p, proc[p].todo[i].key) = NoEntry}

NewRows(p) == {NewRow(proc[p].todo[i], nextJob + i - 1) : i \in Unregistered(p)}

BatchKeys(p) == {i.key : i \in Items(p)}

\* The answers of a batch once its rows are staged.
BatchAnswers(p, rows) ==
    {[key |-> i.key, fp |-> i.fp,
      job |-> IF \E n \in rows : n.key = i.key THEN (CHOOSE n \in rows : n.key = i.key).job
              ELSE ViewKey(p, i.key).job] : i \in Items(p)}

BatchDone(p, rows) ==
    proc' = [proc EXCEPT ![p].pc = "commit", ![p].todo = <<>>, ![p].got = BatchAnswers(p, rows)]

\* CreateJobVersionedUniqueBatch: a key that conflicts is missing from the rows
\* the statement returns, and everything is rolled back.
PgUniqueBatch(p) ==
    /\ At(p, "pgsql", {"batch"}, "put")
    /\ Lockable(p, BatchKeys(p))
    /\ \/ /\ \E i \in Items(p) : Conflicts(p, i)
          /\ Abandon(p)
          /\ UNCHANGED nextJob
       \/ /\ \A i \in Items(p) : ~Conflicts(p, i)
          /\ nextJob + Len(proc[p].todo) <= uses.jobs + 1
          /\ tx' = Staged(p, BatchKeys(p), NewRows(p), NewRows(p))
          /\ BatchDone(p, NewRows(p))
          /\ nextJob' = nextJob + Len(proc[p].todo)
          /\ UNCHANGED writer
    /\ UNCHANGED <<database, registry, active, uses>>
=============================================================================
