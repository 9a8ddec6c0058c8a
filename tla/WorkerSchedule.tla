--------------------------- MODULE WorkerSchedule ---------------------------
(***************************************************************************)
(* How one worker chooses what to claim next (src/outbox/service.go,       *)
(* processWorkerWork; service_execution_batch.go,                          *)
(* processOneAvailableBatch): it rotates over the batch capabilities and   *)
(* alternates them with single work.                                       *)
(*                                                                         *)
(* The batch capabilities are 0..N-1 in the order of their snapshot, and N *)
(* is all single work.  A class is ready while a claim for it would return *)
(* rows; producers, other workers, retries and pauses make classes ready   *)
(* or not between any two steps.  Errors end a worker and are left to      *)
(* Lifecycle.                                                              *)
(***************************************************************************)
EXTENDS Naturals

CONSTANTS
    N,           \* number of batch capabilities
    Workers      \* number of workers of the Run

ASSUME ScheduleAssumption == N \in Nat \ {0} /\ Workers \in Nat \ {0}

Single == N
Classes == 0..N

VARIABLES
    ready,       \* the classes with claimable work
    cursor,      \* schedule.batchCursor
    prefer,      \* schedule.preferBatch
    pc,          \* "begin" of a pass, "batch" scan, "single" or "idle"
    start,       \* where the current scan started
    offset,      \* how far the current scan is
    overtaken    \* history: overtaken[c]: work done for other classes while
                 \* c has been ready without a break

schedule == <<cursor, prefer>>
vars == <<ready, schedule, pc, start, offset, overtaken>>

\* Run gives worker i its own starting point.
Init ==
    /\ ready = {}
    /\ \E i \in 0..(Workers - 1) : cursor = i /\ prefer = (i % 2 = 0)
    /\ pc = "begin" /\ start = 0 /\ offset = 0
    /\ overtaken = [c \in Classes |-> 0]

\* A class gets claimable work.
Appear(c) ==
    /\ c \notin ready
    /\ ready' = ready \cup {c}
    /\ UNCHANGED <<schedule, pc, start, offset, overtaken>>

\* Its work is claimed by another worker, deferred or paused.
Vanish(c) ==
    /\ c \in ready
    /\ ready' = ready \ {c}
    /\ overtaken' = [overtaken EXCEPT ![c] = 0]
    /\ UNCHANGED <<schedule, pc, start, offset>>

-----------------------------------------------------------------------------
\* The history of one piece of work done for class c.
Served(c) ==
    overtaken' = [d \in Classes |->
                    IF d \in ready \ {c} THEN overtaken[d] + 1 ELSE 0]

\* processOneAvailableBatch is entered.
StartScan ==
    /\ pc' = "batch"
    /\ start' = cursor % N
    /\ offset' = 0

\* processWorkerWork
Begin ==
    /\ pc = "begin"
    /\ \/ prefer /\ StartScan
       \/ ~prefer /\ pc' = "single" /\ UNCHANGED <<start, offset>>
    /\ UNCHANGED <<ready, schedule, overtaken>>

\* Mutant of Advance: the next scan starts where this one did.
AdvanceNot(index) == cursor' = cursor

\* The next scan starts behind the capability that was processed.
Advance(index) == cursor' = (index + 1) % N

\* The scan claims for one capability.
TryBatch ==
    LET index == (start + offset) % N
    IN  /\ pc = "batch"
        /\ offset < N
        /\ \/ /\ index \in ready
              /\ Advance(index)
              /\ prefer' = FALSE
              /\ Served(index)
              /\ pc' = "begin"
              /\ UNCHANGED offset
           \/ /\ index \notin ready
              /\ offset' = offset + 1
              /\ UNCHANGED <<schedule, overtaken, pc>>
        /\ UNCHANGED <<ready, start>>

\* Mutant of ScanEmpty: the pass ends without a look at single work.
ScanIdle ==
    /\ pc = "batch"
    /\ offset = N
    /\ pc' = "idle"
    /\ UNCHANGED <<ready, schedule, start, offset, overtaken>>

\* Nothing for batch handlers: single work, unless it has had its turn.
ScanEmpty ==
    /\ pc = "batch"
    /\ offset = N
    /\ pc' = IF prefer THEN "single" ELSE "idle"
    /\ UNCHANGED <<ready, schedule, start, offset, overtaken>>

\* processOneAvailableSingle
TrySingle ==
    /\ pc = "single"
    /\ \/ /\ Single \in ready
          /\ prefer' = TRUE
          /\ Served(Single)
          /\ pc' = "begin"
          /\ UNCHANGED <<start, offset>>
       \/ /\ Single \notin ready
          /\ \/ prefer /\ pc' = "idle" /\ UNCHANGED <<start, offset>>
             \/ ~prefer /\ StartScan
          /\ UNCHANGED <<prefer, overtaken>>
    /\ UNCHANGED <<ready, cursor>>

\* waitForWorker: the timer.
Wait ==
    /\ pc = "idle"
    /\ pc' = "begin"
    /\ UNCHANGED <<ready, schedule, start, offset, overtaken>>

WorkerStep == Begin \/ TryBatch \/ ScanEmpty \/ TrySingle \/ Wait

Next == WorkerStep \/ \E c \in Classes : Appear(c) \/ Vanish(c)

\* The worker goroutine is scheduled and its calls return; nothing is assumed
\* of the work that arrives.
Spec == Init /\ [][Next]_vars /\ WF_vars(WorkerStep)

-----------------------------------------------------------------------------
\* Every variable has its type; in particular a scan starts inside the list,
\* also for workers whose index is above the number of capabilities.
TypeOK ==
    /\ ready \subseteq Classes
    /\ cursor \in Nat /\ prefer \in BOOLEAN
    /\ pc \in {"begin", "batch", "single", "idle"}
    /\ start \in 0..(N - 1) /\ offset \in 0..N
    /\ overtaken \in [Classes -> Nat]

(***************************************************************************)
(* docs/contracts.md: "a continuously ready capability cannot starve the   *)
(* others".  While a class stays ready, a worker does a bounded amount of  *)
(* other work: one piece before single work, and before batch capability c *)
(* at most one for each other capability with single work around them.     *)
(***************************************************************************)
OvertakingBounded ==
    /\ overtaken[Single] <= 1
    /\ \A c \in 0..(N - 1) : overtaken[c] <= 2 * N - 1

\* The worker does work for class c.
Serves(c) ==
    /\ pc' = "begin"
    /\ \/ pc = "single" /\ c = Single
       \/ pc = "batch" /\ c = (start + offset) % N

\* A class that is ready from some time on is served again and again, however
\* the others come and go: no pass of processWorkerWork waits before it has
\* tried every class.
NoStarvation ==
    \A c \in Classes : (<>[](c \in ready)) => []<><<Serves(c)>>_vars

=============================================================================
