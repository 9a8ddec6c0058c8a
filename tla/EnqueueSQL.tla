----------------------------- MODULE EnqueueSQL -----------------------------
(***************************************************************************)
(* The unique puts of MySQL and SQLite, which take several statements, the *)
(* commit of the transaction around a put, pruning, and acknowledgement.   *)
(***************************************************************************)
EXTENDS Enqueue

Rest == <<database, registry, active, uses>>

\* The entry the put registers if its key is free.
Registering(p, item) ==
    /\ ViewKey(p, item.key) = NoEntry => nextJob <= uses.jobs
    /\ tx' = Staged(p, {item.key}, IF ViewKey(p, item.key) = NoEntry
                                   THEN {NewRow(item, nextJob)} ELSE {}, {})
    /\ proc' = [proc EXCEPT ![p].pc = "resolve",
                            ![p].id = IF ViewKey(p, item.key) = NoEntry THEN nextJob ELSE 0]
    /\ nextJob' = IF ViewKey(p, item.key) = NoEntry THEN nextJob + 1 ELSE nextJob

\* The registered entry is read back: another content is a conflict, another
\* identifier an earlier job, and otherwise the job is inserted.
Resolving(p, item) ==
    LET e == ViewKey(p, item.key)
    IN \/ Conflicts(p, item) /\ Abandon(p)
       \/ /\ ~Conflicts(p, item) /\ e.job # proc[p].id
          /\ Answer(p, e.job)
          /\ UNCHANGED <<tx, writer>>
       \/ /\ ~Conflicts(p, item) /\ e.job = proc[p].id
          /\ tx' = Staged(p, {}, {}, {NewRow(item, e.job)})
          /\ Answer(p, e.job)
          /\ UNCHANGED writer

\* INSERT ... ON DUPLICATE KEY UPDATE locks the key, new or not.
MyRegister(p) ==
    /\ At(p, "mysql", Single, "put")
    /\ Lockable(p, {Head(proc[p].todo).key})
    /\ Registering(p, Head(proc[p].todo))
    /\ UNCHANGED writer /\ UNCHANGED Rest

MyResolve(p) ==
    /\ At(p, "mysql", Single, "resolve")
    /\ Resolving(p, Head(proc[p].todo))
    /\ UNCHANGED nextJob /\ UNCHANGED Rest

\* registerUniqueBatchKeys
MyRegisterBatch(p) ==
    /\ At(p, "mysql", {"batch"}, "put")
    /\ Lockable(p, BatchKeys(p))
    /\ nextJob + Len(proc[p].todo) <= uses.jobs + 1
    /\ tx' = Staged(p, BatchKeys(p), NewRows(p), {})
    /\ proc' = [proc EXCEPT ![p].pc = "resolve"]
    /\ nextJob' = nextJob + Len(proc[p].todo)
    /\ UNCHANGED writer /\ UNCHANGED Rest

\* The keys are compared, then insertUniqueBatchJobs adds the created jobs.
MyResolveBatch(p) ==
    /\ At(p, "mysql", {"batch"}, "resolve")
    /\ \/ (\E i \in Items(p) : Conflicts(p, i)) /\ Abandon(p)
       \/ /\ \A i \in Items(p) : ~Conflicts(p, i)
          /\ tx' = Staged(p, {}, {}, tx[p].keys)
          /\ BatchDone(p, tx[p].keys)
          /\ UNCHANGED writer
    /\ UNCHANGED nextJob /\ UNCHANGED Rest

-----------------------------------------------------------------------------
\* SQLite: BEGIN IMMEDIATE, or the first INSERT of the caller's transaction,
\* waits for the write lock, and the put then has it to the end.
SqRegister(p) ==
    /\ At(p, "sqlite", Single, "put")
    /\ writer \in {None, p} /\ writer' = p
    /\ Registering(p, Head(proc[p].todo))
    /\ UNCHANGED Rest

SqResolve(p) ==
    /\ At(p, "sqlite", Single, "resolve")
    /\ Resolving(p, Head(proc[p].todo))
    /\ UNCHANGED nextJob /\ UNCHANGED Rest

SqRegisterBatch(p) ==
    /\ At(p, "sqlite", {"batch"}, "put")
    /\ writer = None /\ writer' = p
    /\ nextJob + Len(proc[p].todo) <= uses.jobs + 1
    /\ tx' = Staged(p, BatchKeys(p), NewRows(p), {})
    /\ proc' = [proc EXCEPT ![p].pc = "resolve"]
    /\ nextJob' = nextJob + Len(proc[p].todo)
    /\ UNCHANGED Rest

SqResolveBatch(p) ==
    /\ At(p, "sqlite", {"batch"}, "resolve")
    /\ \/ (\E i \in Items(p) : Conflicts(p, i)) /\ Abandon(p)
       \/ /\ \A i \in Items(p) : ~Conflicts(p, i)
          /\ tx' = Staged(p, {}, {}, tx[p].keys)
          /\ BatchDone(p, tx[p].keys)
          /\ UNCHANGED writer
    /\ UNCHANGED nextJob /\ UNCHANGED Rest

-----------------------------------------------------------------------------
\* RunInTx, or the owner of the transaction, commits once every put returned.
\* The dispatcher's job is acknowledged after that; whether any other caller
\* learns of its commit makes no difference to what it may do next.
Commit(p) ==
    /\ proc[p].pc = "commit" /\ proc[p].kind # "replay"
    /\ Committed(p)
    /\ proc' = [proc EXCEPT ![p] = IF proc[p].kind = "fanout"
                                   THEN [Idle EXCEPT !.pc = "ack", !.kind = "fanout", !.job = proc[p].job]
                                   ELSE Idle]
    /\ UNCHANGED <<database, nextJob, uses>>

\* An error, a rollback by the caller, a crash; also a crash between the
\* dispatcher's commit and its acknowledgement.
Fail(p) ==
    /\ proc[p] # Idle
    /\ Abandon(p)
    /\ UNCHANGED <<database, registry, active, nextJob, uses>>

\* The worker acknowledges the dispatcher's job, if its lease still holds; on
\* SQLite the statement waits for the write lock.
AckDispatched(p) ==
    LET x == proc[p].job
    IN /\ proc[p].pc = "ack" /\ writer = None
       /\ proc' = [proc EXCEPT ![p] = Idle]
       /\ active' = [active EXCEPT ![x] = NoRow]
       /\ UNCHANGED <<database, registry, nextJob, tx, writer, uses>>

\* Any other job is done.
Ack(x) ==
    /\ active[x] # NoRow /\ active[x].key \notin Events /\ writer = None
    /\ active' = [active EXCEPT ![x] = NoRow]
    /\ UNCHANGED <<database, registry, nextJob, tx, writer, proc, uses>>

-----------------------------------------------------------------------------
\* Mutant of Prunable: whether the job is still there is not looked at.
PrunableActive(before) ==
    {k \in Keys : registry[k] # NoEntry /\ registry[k].job < before}

\* Keys created before the cut-off that no active job carries.
Prunable(before) ==
    {k \in Keys : /\ registry[k] # NoEntry /\ registry[k].job < before
                  /\ \A x \in Ids : active[x].key # k}

\* The host keeps the keys of an event for as long as its fan-out is still to be
\* handled: the cut-off is older than its snapshot and its deliveries.
InWindow(before) ==
    \A x \in Ids : active[x].key \in Events =>
        /\ before <= x
        /\ \A t \in Range(active[x].fp) :
              LET e == registry[DeliveryKey(active[x].key, t)] IN e = NoEntry \/ before <= e.job

\* The registry without the keys K.
Pruned(K) ==
    /\ registry' = [k \in Keys |-> IF k \in K THEN NoEntry ELSE registry[k]]
    /\ UNCHANGED <<database, active, nextJob, tx, writer, proc, uses>>

Oldest(K, limit) == {k \in K : Cardinality({l \in K : registry[l].job < registry[k].job}) < limit}

\* PostgreSQL skips keys that are locked.
PgPrune(before, limit) ==
    LET K == {k \in Prunable(before) : \A q \in Procs : k \notin tx[q].lock}
    IN /\ database = "pgsql" /\ InWindow(before)
       /\ Oldest(K, limit) # {}
       /\ Pruned(Oldest(K, limit))

\* MySQL waits for them.
MyPrune(before, limit) ==
    LET K == Oldest(Prunable(before), limit)
    IN /\ database = "mysql" /\ InWindow(before)
       /\ K # {} /\ \A q \in Procs : K \cap tx[q].lock = {}
       /\ Pruned(K)

SqPrune(before, limit) ==
    LET K == Oldest(Prunable(before), limit)
    IN /\ database = "sqlite" /\ InWindow(before)
       /\ K # {} /\ writer = None
       /\ Pruned(K)

Prune ==
    \E before \in 2..(uses.jobs + 1), limit \in {1, 2} :
        PgPrune(before, limit) \/ MyPrune(before, limit) \/ SqPrune(before, limit)

ENext ==
    \/ \E p \in Procs :
          \/ PutVersionedUnique(p) \/ PutInCallerTx(p) \/ PutVersionedUniqueBatch(p)
          \/ PutFanout(p) \/ Dispatch(p)
          \/ PgUnique(p) \/ PgUniqueBatch(p)
          \/ MyRegister(p) \/ MyResolve(p) \/ MyRegisterBatch(p) \/ MyResolveBatch(p)
          \/ SqRegister(p) \/ SqResolve(p) \/ SqRegisterBatch(p) \/ SqResolveBatch(p)
          \/ Commit(p) \/ Fail(p) \/ AckDispatched(p)
    \/ \E x \in Ids : Ack(x)
    \/ Prune

-----------------------------------------------------------------------------
(***************************************************************************)
(* One job per key: a job appears in the active table only together with   *)
(* the registration of its key, so a key that is registered, for an active *)
(* job or as a tombstone, never gets a second one, whoever puts it and in  *)
(* whatever transactions.                                                  *)
(***************************************************************************)
OneJobPerKey ==
    [][\A x \in Ids : active[x] = NoRow /\ active'[x] # NoRow =>
          /\ registry[active'[x].key] = NoEntry
          /\ registry'[active'[x].key] = [job |-> x, fp |-> active'[x].fp]]_evars

(***************************************************************************)
(* Pruning never forgets a key that is in use: the entry of every active   *)
(* job is in the registry and names that job and its content.              *)
(***************************************************************************)
ActiveKeysKept ==
    \A x \in Ids : active[x] # NoRow =>
        registry[active[x].key] = [job |-> x, fp |-> active[x].fp]

(***************************************************************************)
(* Answers stay true: from the moment a put is answered until its          *)
(* transaction commits, the answered job is the one its key belongs to,    *)
(* with the content that was put, whatever is pruned or put meanwhile; and *)
(* a committed entry never changes except by being pruned.  A repeated put *)
(* therefore gets the same answer, and one with other content a conflict.  *)
(***************************************************************************)
AnswersStable ==
    [][/\ \A p \in Procs : \A a \in proc[p].got : ViewKey(p, a.key) = [job |-> a.job, fp |-> a.fp]
       /\ \A k \in Keys : registry[k] # NoEntry => registry'[k] \in {registry[k], NoEntry}]_evars

(***************************************************************************)
(* A fan-out that is acknowledged has reached every target: a delivery for *)
(* each target of the stored snapshot is registered by then, although the  *)
(* dispatcher may have failed, been repeated or been run twice at once.    *)
(***************************************************************************)
FanoutComplete ==
    [][\A x \in Ids : active[x].key \in Events /\ active'[x] = NoRow =>
          \A n \in DOMAIN active[x].fp :
              registry[DeliveryKey(active[x].key, active[x].fp[n])].fp = active[x].fp[n]]_evars
=============================================================================
