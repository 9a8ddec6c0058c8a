----------------------------- MODULE Lifecycle -----------------------------
(***************************************************************************)
(* The lifecycle of one outbox service (src/outbox/service.go): job        *)
(* registration, Run and its worker goroutines, readiness, BeginDrain, and *)
(* cancellation.                                                           *)
(*                                                                         *)
(* Atomics (running, ready), the registry mutex mu, the RWMutex claimMu    *)
(* and the drain channel are separate pieces of state in the code, read    *)
(* and written in separate steps here.  A worker's claim and handler are   *)
(* one step each; LeaseWorker has what happens inside them.                *)
(***************************************************************************)
EXTENDS Naturals, FiniteSets

CONSTANTS
    Runs,         \* invocations of Run
    Workers,      \* worker goroutines of one Run
    Drainers,     \* invocations of BeginDrain
    Registrars,   \* invocations of RegisterJobs and RegisterBatchJob
    Caps,         \* capabilities
    RegBatch,     \* the registrars that register a batch handler
    RegCaps,      \* RegCaps[g]: the capabilities registrar g installs
    None

ASSUME LifecycleAssumption ==
    /\ IsFiniteSet(Workers)
    /\ RegBatch \subseteq Registrars
    /\ RegCaps \in [Registrars -> SUBSET Caps]
    /\ \A g \in RegBatch : Cardinality(RegCaps[g]) = 1
    /\ None \notin Registrars

VARIABLES
    running, ready,   \* the two atomic flags
    drain,            \* the drain channel is closed
    jobs, batchJobs,  \* the two registries
    mu,               \* the registrar inside the critical section of mu
    reg,              \* reg[g]: where registrar g is
    run,              \* run[r]: where invocation r of Run is
    single, batch,    \* single[r], batch[r]: the capabilities r works with
    cancelled,        \* cancelled[r]: the worker context of r is cancelled
    worker,           \* worker[r][w]: where worker w of r is
    drainer           \* drainer[d]: where invocation d of BeginDrain is

registry == <<jobs, batchJobs, mu, reg>>
runVars  == <<run, single, batch, cancelled, worker>>
vars == <<running, ready, drain, registry, runVars, drainer>>

Init ==
    /\ running = FALSE /\ ready = FALSE /\ drain = FALSE
    /\ jobs = {} /\ batchJobs = {} /\ mu = None
    /\ reg = [g \in Registrars |-> "idle"]
    /\ run = [r \in Runs |-> "idle"]
    /\ single = [r \in Runs |-> {}] /\ batch = [r \in Runs |-> {}]
    /\ cancelled = [r \in Runs |-> FALSE]
    /\ worker = [r \in Runs |-> [w \in Workers |-> "off"]]
    /\ drainer = [d \in Drainers |-> "idle"]

-----------------------------------------------------------------------------
(* Registration: RegisterJobs, RegisterBatchJob. *)

\* mu is taken, then running is read.
RegisterLock(g) ==
    /\ reg[g] = "idle"
    /\ mu = None
    /\ IF running
       THEN reg' = [reg EXCEPT ![g] = "refused"] /\ UNCHANGED mu
       ELSE reg' = [reg EXCEPT ![g] = "checked"] /\ mu' = g
    /\ UNCHANGED <<running, ready, drain, jobs, batchJobs, runVars, drainer>>

\* All the capabilities of the call are new to both registries, or none of
\* them is installed.
RegisterInstall(g) ==
    /\ reg[g] = "checked"
    /\ mu' = None
    /\ IF RegCaps[g] \cap (jobs \cup batchJobs) = {}
       THEN /\ reg' = [reg EXCEPT ![g] = "installed"]
            /\ IF g \in RegBatch
               THEN batchJobs' = batchJobs \cup RegCaps[g] /\ UNCHANGED jobs
               ELSE jobs' = jobs \cup RegCaps[g] /\ UNCHANGED batchJobs
       ELSE reg' = [reg EXCEPT ![g] = "refused"] /\ UNCHANGED <<jobs, batchJobs>>
    /\ UNCHANGED <<running, ready, drain, runVars, drainer>>

-----------------------------------------------------------------------------
(* Run *)

GotoRun(r, label) == run' = [run EXCEPT ![r] = label]

\* CompareAndSwap(false, true)
RunStart(r) ==
    /\ run[r] = "idle"
    /\ running' = TRUE
    /\ GotoRun(r, IF running THEN "refused" ELSE "started")
    /\ UNCHANGED <<ready, drain, registry, single, batch, cancelled, worker,
                   drainer>>

\* Mutant of RunSnapshotSingle: the registry is read without its mutex.
SnapshotUnlocked(r) ==
    /\ run[r] = "started"
    /\ single' = [single EXCEPT ![r] = jobs]
    /\ GotoRun(r, "single")
    /\ UNCHANGED <<running, ready, drain, registry, batch, cancelled, worker,
                   drainer>>

\* registeredSingleCapabilities, then registeredBatchCapabilities.
RunSnapshotSingle(r) ==
    /\ run[r] = "started"
    /\ mu = None
    /\ single' = [single EXCEPT ![r] = jobs]
    /\ GotoRun(r, "single")
    /\ UNCHANGED <<running, ready, drain, registry, batch, cancelled, worker,
                   drainer>>

RunSnapshotBatch(r) ==
    /\ run[r] = "single"
    /\ mu = None
    /\ batch' = [batch EXCEPT ![r] = batchJobs]
    /\ GotoRun(r, "spawning")
    /\ UNCHANGED <<running, ready, drain, registry, single, cancelled, worker,
                   drainer>>

RunSpawn(r, w) ==
    /\ run[r] = "spawning"
    /\ worker[r][w] = "off"
    /\ worker' = [worker EXCEPT ![r][w] = "loop"]
    /\ UNCHANGED <<running, ready, drain, registry, run, single, batch,
                   cancelled, drainer>>

\* All workers are started: look at the drain signal, then store ready.
RunCheckDrain(r) ==
    /\ run[r] = "spawning"
    /\ \A w \in Workers : worker[r][w] # "off"
    /\ GotoRun(r, IF drain THEN "waiting" ELSE "readying")
    /\ UNCHANGED <<running, ready, drain, registry, single, batch, cancelled,
                   worker, drainer>>

RunReady(r) ==
    /\ run[r] = "readying"
    /\ ready' = TRUE
    /\ GotoRun(r, "waiting")
    /\ UNCHANGED <<running, drain, registry, single, batch, cancelled, worker,
                   drainer>>

\* eg.Wait returns; the deferred calls run, cancelWorkers first.
RunJoined(r) ==
    /\ run[r] = "waiting"
    /\ \A w \in Workers : worker[r][w] = "exited"
    /\ cancelled' = [cancelled EXCEPT ![r] = TRUE]
    /\ GotoRun(r, "stopping")
    /\ UNCHANGED <<running, ready, drain, registry, single, batch, worker,
                   drainer>>

\* Mutant of RunUnready: the ready flag stays as it is.
UnreadyNot(r) ==
    /\ run[r] = "stopping"
    /\ GotoRun(r, "unready")
    /\ UNCHANGED <<running, ready, drain, registry, single, batch, cancelled,
                   worker, drainer>>

RunUnready(r) ==
    /\ run[r] = "stopping"
    /\ ready' = FALSE
    /\ GotoRun(r, "unready")
    /\ UNCHANGED <<running, drain, registry, single, batch, cancelled, worker,
                   drainer>>

RunReturn(r) ==
    /\ run[r] = "unready"
    /\ running' = FALSE
    /\ GotoRun(r, "returned")
    /\ UNCHANGED <<ready, drain, registry, single, batch, cancelled, worker,
                   drainer>>

\* The host cancels the context it gave to Run.
Cancel(r) ==
    /\ run[r] \notin {"idle", "refused", "returned"}
    /\ ~cancelled[r]
    /\ cancelled' = [cancelled EXCEPT ![r] = TRUE]
    /\ UNCHANGED <<running, ready, drain, registry, run, single, batch, worker,
                   drainer>>

-----------------------------------------------------------------------------
(* A worker: runWorker, processWorkerWork, claimJobsWithLease. *)

GotoWorker(r, w, label) == worker' = [worker EXCEPT ![r][w] = label]

\* The worker ends with an error, or its callback called runtime.Goexit: the
\* other workers of the Run are cancelled.
FailWorker(r, w) ==
    /\ GotoWorker(r, w, "exited")
    /\ cancelled' = [cancelled EXCEPT ![r] = TRUE]

\* for !s.IsDraining()
WorkerLoop(r, w) ==
    /\ worker[r][w] = "loop"
    /\ GotoWorker(r, w, IF drain THEN "exited" ELSE "try")
    /\ UNCHANGED <<running, ready, drain, registry, run, single, batch,
                   cancelled, drainer>>

\* A writer that waits for claimMu keeps new readers out.
WriterPending == \E d \in Drainers : drainer[d] = "pending"

\* Mutant of ClaimLock: readers overtake a waiting writer.
ClaimBarging(r, w) ==
    /\ worker[r][w] = "try"
    /\ single[r] \cup batch[r] # {}
    /\ GotoWorker(r, w, IF drain THEN "wait" ELSE "claiming")
    /\ UNCHANGED <<running, ready, drain, registry, run, single, batch,
                   cancelled, drainer>>

\* claimMu.RLock, and the drain signal behind it.
ClaimLock(r, w) ==
    /\ worker[r][w] = "try"
    /\ single[r] \cup batch[r] # {}
    /\ ~WriterPending
    /\ GotoWorker(r, w, IF drain THEN "wait" ELSE "claiming")
    /\ UNCHANGED <<running, ready, drain, registry, run, single, batch,
                   cancelled, drainer>>

\* No capability is registered: there is nothing to claim.
ClaimNothing(r, w) ==
    /\ worker[r][w] = "try"
    /\ single[r] \cup batch[r] = {}
    /\ GotoWorker(r, w, "wait")
    /\ UNCHANGED <<running, ready, drain, registry, run, single, batch,
                   cancelled, drainer>>

\* The claim returns rows, ErrNoJobs or an error.  Rows that come back after
\* the context was cancelled are released, and the cancellation is the error.
ClaimReturn(r, w) ==
    /\ worker[r][w] = "claiming"
    /\ \/ ~cancelled[r] /\ GotoWorker(r, w, "handling") /\ UNCHANGED cancelled
       \/ GotoWorker(r, w, "wait") /\ UNCHANGED cancelled
       \/ FailWorker(r, w)
    /\ UNCHANGED <<running, ready, drain, registry, run, single, batch, drainer>>

\* The batch is processed, is cut short by a drain, or fails.
HandlerReturn(r, w) ==
    /\ worker[r][w] = "handling"
    /\ \/ GotoWorker(r, w, "loop") /\ UNCHANGED cancelled
       \/ drain /\ GotoWorker(r, w, "wait") /\ UNCHANGED cancelled
       \/ FailWorker(r, w)
    /\ UNCHANGED <<running, ready, drain, registry, run, single, batch, drainer>>

\* Mutant of WorkerWait: only the timer is waited for.
WaitTimerOnly(r, w) ==
    /\ worker[r][w] = "wait"
    /\ GotoWorker(r, w, "loop")
    /\ UNCHANGED <<running, ready, drain, registry, run, single, batch,
                   cancelled, drainer>>

\* waitForWorker
WorkerWait(r, w) ==
    /\ worker[r][w] = "wait"
    /\ \/ GotoWorker(r, w, "loop")
       \/ (cancelled[r] \/ drain) /\ GotoWorker(r, w, "exited")
    /\ UNCHANGED <<running, ready, drain, registry, run, single, batch,
                   cancelled, drainer>>

-----------------------------------------------------------------------------
(* BeginDrain *)

GotoDrainer(d, label) == drainer' = [drainer EXCEPT ![d] = label]

DrainUnready(d) ==
    /\ drainer[d] = "idle"
    /\ ready' = FALSE
    /\ GotoDrainer(d, "unready")
    /\ UNCHANGED <<running, drain, registry, runVars>>

\* claimMu.Lock is called: one writer at a time announces itself.
DrainLock(d) ==
    /\ drainer[d] = "unready"
    /\ ~WriterPending
    /\ GotoDrainer(d, "pending")
    /\ UNCHANGED <<running, ready, drain, registry, runVars>>

\* The last reader has left: close the channel (once) and unlock.
DrainClose(d) ==
    /\ drainer[d] = "pending"
    /\ \A r \in Runs, w \in Workers : worker[r][w] # "claiming"
    /\ drain' = TRUE
    /\ GotoDrainer(d, "returned")
    /\ UNCHANGED <<running, ready, registry, runVars>>

-----------------------------------------------------------------------------
RegisterStep == \E g \in Registrars : RegisterLock(g) \/ RegisterInstall(g)

RunStep(r) ==
    \/ RunSnapshotSingle(r) \/ RunSnapshotBatch(r)
    \/ \E w \in Workers : RunSpawn(r, w)
    \/ RunCheckDrain(r) \/ RunReady(r) \/ RunJoined(r) \/ RunUnready(r)
    \/ RunReturn(r)

WorkerStep(r, w) ==
    \/ WorkerLoop(r, w) \/ ClaimLock(r, w) \/ ClaimNothing(r, w)
    \/ ClaimReturn(r, w) \/ HandlerReturn(r, w) \/ WorkerWait(r, w)

DrainStep(d) == DrainLock(d) \/ DrainClose(d)

Next ==
    \/ RegisterStep
    \/ \E r \in Runs : RunStart(r) \/ RunStep(r) \/ Cancel(r)
    \/ \E r \in Runs, w \in Workers : WorkerStep(r, w)
    \/ \E d \in Drainers : DrainUnready(d) \/ DrainStep(d)

(***************************************************************************)
(* Fairness: goroutines that can move are scheduled; repository calls end  *)
(* (claims carry a deadline) and handlers return (they have an execution   *)
(* timeout); a closed channel or a cancelled context wins the select of    *)
(* waitForWorker eventually, since the timer is armed anew each time.  The *)
(* host owes nothing: it may never call Run, BeginDrain or cancel.         *)
(***************************************************************************)
Fairness ==
    /\ \A g \in Registrars : WF_vars(RegisterInstall(g))
    /\ \A r \in Runs : WF_vars(RunStep(r))
    /\ \A r \in Runs, w \in Workers :
         /\ WF_vars(WorkerStep(r, w))
         /\ SF_vars(WorkerWait(r, w) /\ worker'[r][w] = "exited")
    /\ \A d \in Drainers : WF_vars(DrainStep(d))

Spec == Init /\ [][Next]_vars
LiveSpec == Spec /\ Fairness

-----------------------------------------------------------------------------
(* Properties. *)

Active(r) == run[r] \notin {"idle", "refused", "returned"}

\* Readiness, for a live context.
Readiness == running /\ ~drain /\ ready

(***************************************************************************)
(* Readiness "is successful only after worker loops start": when it        *)
(* succeeds, one Run is active and has started every one of its workers;   *)
(* the flag of an earlier Run never speaks for a later one.                *)
(***************************************************************************)
ReadyMeansStarted ==
    ready => \E r \in Runs : /\ run[r] \in {"waiting", "stopping"}
                             /\ \A w \in Workers : worker[r][w] # "off"

(***************************************************************************)
(* The capabilities a Run works with are the registered ones for as long   *)
(* as it is active: a registration that raced Run either was installed     *)
(* before both snapshots or is refused with ErrServiceRunning.             *)
(***************************************************************************)
SnapshotCurrent ==
    \A r \in Runs :
        /\ Active(r) /\ run[r] # "started" => single[r] = jobs
        /\ Active(r) /\ run[r] \notin {"started", "single"} => batch[r] = batchJobs

(***************************************************************************)
(* README: readiness "becomes unavailable before `BeginDrain` closes claim *)
(* admission".  Then the channel is only ever closed while Readiness       *)
(* already fails.                                                          *)
(***************************************************************************)
UnavailableBeforeClosed == [][drain' # drain => ~Readiness]_vars

(***************************************************************************)
(* BeginDrain returns: a claim in flight ends, and the claims of workers   *)
(* that keep polling cannot hold the claim boundary open for ever.         *)
(***************************************************************************)
DrainReturns ==
    \A d \in Drainers : drainer[d] # "idle" ~> drainer[d] = "returned"

\* Run returns once the service drains or its context is cancelled, and every
\* worker is joined first.
RunEnds ==
    \A r \in Runs : Active(r) /\ (drain \/ cancelled[r]) ~> run[r] = "returned"

=============================================================================
