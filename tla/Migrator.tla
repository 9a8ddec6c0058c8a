------------------------------ MODULE Migrator ------------------------------
(***************************************************************************)
(* The Picodata migrator: it applies and rolls back the SQL files of a     *)
(* directory, statement by statement and without a transaction, and keeps  *)
(* one record per applied version.                                         *)
(*                                                                         *)
(* Several replicas of an application may run "up" when they start; "down" *)
(* and "reset" are commands of an operator who runs them alone.  A run may *)
(* end at any point, and a statement may answer RaftLogCompacted whether   *)
(* or not it took effect.  What was recorded is read once, when a run      *)
(* begins.  The schema is the set of its tables, <<table, None>>, and      *)
(* added columns, <<table, column>>.                                       *)
(***************************************************************************)
EXTENDS Integers, Sequences, FiniteSets, SequencesExt

CONSTANTS
    Procs,       \* processes that run the migrator
    Files,       \* the sorted files: [version, name, up, down], see splitStatements
    Steps,       \* values of WithSteps
    Attempts,    \* ddlRetryAttempts
    None

VARIABLES
    schema,      \* tables and columns that exist
    recorded,    \* rows of picodata_db_version, as [version, name]
    proc,        \* proc[p]: the run of process p
    undoing      \* versions some run has begun to roll back and is still recorded

vars == <<schema, recorded, proc, undoing>>

Idle == [pc |-> "idle", cmd |-> "none", at |-> 0, stmt |-> 1, try |-> 1,
         applied |-> {}, max |-> -1, steps |-> 0, loaded |-> {}]

Init ==
    /\ schema = {} /\ recorded = {} /\ undoing = {}
    /\ proc = [p \in Procs |-> Idle]

-----------------------------------------------------------------------------
\* A statement is [op, table, column].

VersionsTable == [op |-> "create", table |-> "versions", column |-> None]

Effect(s) ==
    CASE s.op \in {"create", "alter"} -> schema \cup {<<s.table, s.column>>}
      [] s.op = "drop"                -> {o \in schema : o[1] # s.table}
      [] s.op = "update"              -> schema

\* ADD COLUMN needs the table without the column, UPDATE needs the column.
Rejected(s) ==
    \/ s.op = "alter" /\ (<<s.table, None>> \notin schema \/ <<s.table, s.column>> \in schema)
    \/ s.op = "update" /\ <<s.table, s.column>> \notin schema

\* isRetryableIdempotentDDL: CREATE ... IF NOT EXISTS and DROP ... IF EXISTS.
Retryable(s, try) == s.op \in {"create", "drop"} /\ try < Attempts

\* Mutant of NextAttempt: the counter starts again.
NextAttemptReset(try) == IF try = 1 THEN 2 ELSE 1

NextAttempt(try) == try + 1

Versions(R) == {r.version : r \in R}

\* findMaxAppliedVersion
findMaxAppliedVersion(R) == IF R = {} THEN -1 ELSE Max(Versions(R))

\* Mutant of Skipped: one version too many is assumed to be applied.
SkippedNext(r, f) == f.version \in Versions(r.applied) \/ f.version <= r.max + 1

\* applyMigrations leaves out a file that is recorded, or older than a recorded one.
Skipped(r, f) ==
    \/ f.version \in Versions(r.applied)
    \/ f.name \in {a.name : a \in r.applied}
    \/ r.max >= 0 /\ f.version <= r.max

\* A file counts as applied if it is recorded or older than a recorded one.
Counted(R, max, f) == f.version \in Versions(R) \/ (max >= 0 /\ f.version <= max)

\* Mutant of countAppliedWithAssumptions: the number of records less one.
countAppliedLess(R, max) == Cardinality(R) - 1

\* countAppliedWithAssumptions: the steps of a reset.
countAppliedWithAssumptions(R, max) == Cardinality({i \in DOMAIN Files : Counted(R, max, Files[i])})

\* Mutant of NextFile: a rollback takes the oldest file.
NextFileOldest(r) ==
    LET F == {i \in DOMAIN Files :
                 IF r.cmd = "up" THEN i > r.at /\ ~Skipped(r, Files[i])
                 ELSE i < r.at /\ r.steps > 0 /\ Counted(r.applied, r.max, Files[i])}
    IN IF F = {} THEN 0 ELSE Min(F)

\* The file a run handles next, 0 if it is finished: "up" goes forwards, a
\* rollback backwards, over the files with a DOWN section, while it has steps.
NextFile(r) ==
    LET forwards  == {i \in DOMAIN Files : i > r.at /\ ~Skipped(r, Files[i])}
        backwards == {i \in DOMAIN Files : /\ i < r.at /\ r.steps > 0
                                           /\ Counted(r.applied, r.max, Files[i])
                                           /\ Files[i].down # <<>>}
    IN IF r.cmd = "up" THEN (IF forwards = {} THEN 0 ELSE Min(forwards))
       ELSE (IF backwards = {} THEN 0 ELSE Max(backwards))

\* The statements of the step r is in.
Statements(r) ==
    IF r.pc = "ensure" THEN <<VersionsTable>>
    ELSE IF r.cmd = "up" THEN Files[r.at].up ELSE Files[r.at].down

RollingBack(p) == proc[p].cmd \in {"down", "reset"}

-----------------------------------------------------------------------------
\* Run and RunEmbedded.  The operator's commands run alone.
Run(p) ==
    /\ proc[p] = Idle
    /\ \E cmd \in {"up", "down", "reset"}, n \in Steps :
          /\ \A q \in Procs : ~RollingBack(q) /\ (cmd = "up" \/ proc[q] = Idle)
          /\ proc' = [proc EXCEPT ![p] = [Idle EXCEPT !.pc = "ensure", !.cmd = cmd, !.steps = n]]
    /\ UNCHANGED <<schema, recorded, undoing>>

Return(p) == proc' = [proc EXCEPT ![p] = Idle]

\* loadAppliedMigrations, and the number of steps of a reset.
Load(p) ==
    LET max == findMaxAppliedVersion(recorded)
    IN /\ proc[p].pc = "load"
       /\ proc' = [proc EXCEPT ![p] =
                      [@ EXCEPT !.pc = "next", !.applied = recorded, !.loaded = recorded, !.max = max,
                                !.at = IF RollingBack(p) THEN Len(Files) + 1 ELSE 0,
                                !.steps = IF proc[p].cmd = "reset"
                                          THEN countAppliedWithAssumptions(recorded, max) ELSE @]]
       /\ UNCHANGED <<schema, recorded, undoing>>

\* The loop of applyMigrations and rollbackMigrations.
Advance(p) ==
    LET i == NextFile(proc[p])
    IN /\ proc[p].pc = "next"
       /\ IF i = 0 THEN Return(p)
          ELSE proc' = [proc EXCEPT ![p] = [@ EXCEPT !.pc = "exec", !.at = i, !.stmt = 1, !.try = 1]]
       /\ UNCHANGED <<schema, recorded, undoing>>

\* Where p is after the current statement.
AfterStatement(p) ==
    LET r == proc[p]
    IN proc' = [proc EXCEPT ![p] =
                   [@ EXCEPT !.pc = IF r.stmt < Len(Statements(r)) THEN r.pc
                                    ELSE IF r.pc = "ensure" THEN "load" ELSE "record",
                             !.stmt = IF r.stmt < Len(Statements(r)) THEN @ + 1 ELSE 1,
                             !.try = 1]]

\* execMigrationStatement: the statement is done, rejected, or answered with
\* RaftLogCompacted, after which an idempotent one is tried again.
Exec(p) ==
    LET r == proc[p]
        s == Statements(r)[r.stmt]
    IN /\ r.pc \in {"ensure", "exec"}
       /\ \/ Rejected(s) /\ Return(p) /\ UNCHANGED schema
          \/ ~Rejected(s) /\ AfterStatement(p) /\ schema' = Effect(s)
          \/ /\ ~Rejected(s)
             /\ schema' \in {schema, Effect(s)}
             /\ IF Retryable(s, r.try) THEN proc' = [proc EXCEPT ![p].try = NextAttempt(@)] ELSE Return(p)
       /\ undoing' = IF r.pc = "exec" /\ RollingBack(p)
                     THEN undoing \cup ({Files[r.at].version} \cap Versions(recorded)) ELSE undoing
       /\ UNCHANGED recorded

\* recordMigrationState: version_id is the primary key.
Record(p) ==
    LET r == proc[p]
        f == Files[r.at]
        row == [version |-> f.version, name |-> f.name]
    IN /\ r.pc = "record"
       /\ \/ /\ r.cmd = "up" /\ f.version \in Versions(recorded)
             /\ Return(p)
             /\ UNCHANGED <<recorded, undoing>>
          \/ /\ r.cmd = "up" /\ f.version \notin Versions(recorded)
             /\ recorded' = recorded \cup {row}
             /\ proc' = [proc EXCEPT ![p].pc = "next", ![p].applied = @ \cup {row}]
             /\ UNCHANGED undoing
          \/ /\ RollingBack(p)
             /\ recorded' = {a \in recorded : a.version # f.version}
             /\ undoing' = undoing \ {f.version}
             /\ proc' = [proc EXCEPT ![p].pc = "next", ![p].steps = @ - 1,
                                     ![p].applied = {a \in @ : a.version # f.version}]
       /\ UNCHANGED schema

\* The process dies, loses its connection or its context ends.
Crash(p) ==
    /\ proc[p] # Idle
    /\ Return(p)
    /\ UNCHANGED <<schema, recorded, undoing>>

Step(p) == Load(p) \/ Advance(p) \/ Exec(p) \/ Record(p)

Next == \E p \in Procs : Run(p) \/ Step(p) \/ Crash(p)

\* A run goes on as long as its process lives.
Spec == Init /\ [][Next]_vars /\ \A p \in Procs : WF_vars(Step(p))

-----------------------------------------------------------------------------
\* What the up statements of a file add.
Adds(f) == {<<s.table, s.column>> : s \in {s \in Range(f.up) : s.op \in {"create", "alter"}}}

FileOf(v) == Files[CHOOSE i \in DOMAIN Files : Files[i].version = v]

(***************************************************************************)
(* What is recorded is there: every table and column of a recorded version *)
(* exists, unless a rollback of that version was begun, although runs      *)
(* crash between statements and replicas apply the same files at once.     *)
(***************************************************************************)
RecordedComplete ==
    \A v \in Versions(recorded) \ undoing : Adds(FileOf(v)) \subseteq schema

(***************************************************************************)
(* An "up" that reports success leaves the whole schema behind, although   *)
(* it skips versions by what it read when it began and by the greatest of  *)
(* them, provided that no rollback was left half done.                     *)
(***************************************************************************)
UpCompletes ==
    [][\A p \in Procs :
          proc[p].cmd = "up" /\ proc[p].pc = "next" /\ NextFile(proc[p]) = 0 /\ undoing = {} =>
              \A i \in DOMAIN Files : Adds(Files[i]) \subseteq schema]_vars

(***************************************************************************)
(* "A full reset drops the owning tables": when a reset has come to its    *)
(* end, no table of a version that was recorded when it began is left, and *)
(* no column in it, also if an earlier run crashed or a one-step down kept *)
(* the columns.                                                            *)
(***************************************************************************)
ResetDrops ==
    [][\A p \in Procs : proc[p].cmd = "reset" /\ proc[p].pc = "next" /\ NextFile(proc[p]) = 0 =>
          \A v \in Versions(proc[p].loaded) : \A s \in Range(FileOf(v).up) :
              s.op = "create" => \A o \in schema : o[1] # s.table]_vars

(***************************************************************************)
(* Every run comes to an end: no answer of the database makes it retry a   *)
(* statement for ever.                                                     *)
(***************************************************************************)
Terminates == \A p \in Procs : proc[p] # Idle ~> proc[p] = Idle
=============================================================================
