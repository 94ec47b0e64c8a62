--------------------------- MODULE MigrationRunner ---------------------------
(***************************************************************************)
(* The migration runner (src/db/migrate.js).  Nothing keeps two runs from  *)
(* overlapping: each lists the files, reads once what is recorded in       *)
(* schema_migrations, and then applies the files it did not find there,    *)
(* each with its record in a transaction of its own.  Statements fail,     *)
(* runners die, and files are edited and added at any time.                *)
(***************************************************************************)
EXTENDS Naturals, FiniteSets

CONSTANTS
    Runners,        \* runs that may overlap
    Files,          \* file names, numbered in their order
    Checksums,      \* contents a file may have
    Absent,         \* no such file, no such row
    NoFile          \* a runner that applies no file

ASSUME FilesAssumption == Files \subseteq Nat /\ NoFile \notin Files
ASSUME AbsentAssumption == Absent \notin Checksums

VARIABLES
    disk,           \* the files there are, by content
    recorded,       \* committed rows of schema_migrations
    effects,        \* how often the SQL of a file took effect
    phase,          \* what a run does next
    applied,        \* the rows it read
    compared,       \* the checksum it computed of each file so far
    todo,           \* the files it still has to look at
    file            \* the one it is applying

vars == <<disk, recorded, effects, phase, applied, compared, todo, file>>

NoneOf == [f \in Files |-> Absent]

Init ==
    /\ disk \in [Files -> Checksums \cup {Absent}]
    /\ recorded = NoneOf
    /\ effects = [f \in Files |-> 0]
    /\ phase = [r \in Runners |-> "idle"]
    /\ applied = [r \in Runners |-> NoneOf]
    /\ compared = [r \in Runners |-> NoneOf]
    /\ todo = [r \in Runners |-> {}]
    /\ file = [r \in Runners |-> NoFile]

Present == {f \in Files : disk[f] # Absent}

Goto(r, next) == phase' = [phase EXCEPT ![r] = next]

-----------------------------------------------------------------------------
\* The directory.  New files are named after the ones that are there.

AddFile(f, sum) ==
    /\ \A g \in Present : g < f
    /\ disk' = [disk EXCEPT ![f] = sum]
    /\ UNCHANGED <<recorded, effects, phase, applied, compared, todo, file>>

EditFile(f, sum) ==
    /\ f \in Present
    /\ disk' = [disk EXCEPT ![f] = sum]
    /\ UNCHANGED <<recorded, effects, phase, applied, compared, todo, file>>

-----------------------------------------------------------------------------
\* One run

\* A process is started, makes sure of the table, and lists the files.
Start(r) ==
    /\ phase[r] \in {"idle", "done", "failed"}
    /\ Goto(r, "select")
    /\ todo' = [todo EXCEPT ![r] = Present]
    /\ compared' = [compared EXCEPT ![r] = NoneOf]
    /\ applied' = [applied EXCEPT ![r] = NoneOf]
    /\ UNCHANGED <<disk, recorded, effects, file>>

\* SELECT filename, checksum: read once, before the loop.
ReadApplied(r) ==
    /\ phase[r] = "select"
    /\ applied' = [applied EXCEPT ![r] = recorded]
    /\ Goto(r, "loop")
    /\ UNCHANGED <<disk, recorded, effects, compared, todo, file>>

\* The loop takes the names in their order.
IsNext(r, f) == f \in todo[r] /\ \A g \in todo[r] : f <= g

\* A mutant of TakeFile: the checksum is not compared.
TakeUnchecked(r) ==
    /\ phase[r] = "loop"
    /\ \E f \in Files :
        /\ IsNext(r, f)
        /\ todo' = [todo EXCEPT ![r] = @ \ {f}]
        /\ compared' = [compared EXCEPT ![r][f] = disk[f]]
        /\ IF applied[r][f] = Absent
           THEN file' = [file EXCEPT ![r] = f] /\ Goto(r, "sql")
           ELSE UNCHANGED <<file, phase>>
    /\ UNCHANGED <<disk, recorded, effects, applied>>

\* The next file is read: it is applied, skipped, or found modified.
TakeFile(r) ==
    /\ phase[r] = "loop"
    /\ \E f \in Files :
        /\ IsNext(r, f)
        /\ todo' = [todo EXCEPT ![r] = @ \ {f}]
        /\ compared' = [compared EXCEPT ![r][f] = disk[f]]
        /\ \/ /\ applied[r][f] = Absent
              /\ file' = [file EXCEPT ![r] = f]
              /\ Goto(r, "sql")
           \/ /\ applied[r][f] = disk[f]
              /\ UNCHANGED <<file, phase>>
           \/ /\ applied[r][f] \notin {Absent, disk[f]}
              /\ Goto(r, "failed")
              /\ UNCHANGED file
    /\ UNCHANGED <<disk, recorded, effects, applied>>

\* BEGIN and the SQL of the file; DDL that was applied before may well run again.
RunSql(r) ==
    /\ phase[r] = "sql"
    /\ Goto(r, "insert")
    /\ UNCHANGED <<disk, recorded, effects, applied, compared, todo, file>>

\* Another run has inserted the row of the file and not committed it.
Pending(r) == \E q \in Runners \ {r} : phase[q] = "commit" /\ file[q] = file[r]

\* A mutant of InsertRecord: no primary key.
InsertAnyRecord(r) ==
    /\ phase[r] = "insert"
    /\ Goto(r, "commit")
    /\ UNCHANGED <<disk, recorded, effects, applied, compared, todo, file>>

\* INSERT INTO schema_migrations waits for a pending row of the same name and
\* is refused by a committed one.
InsertRecord(r) ==
    /\ phase[r] = "insert"
    /\ ~Pending(r)
    /\ Goto(r, IF recorded[file[r]] = Absent THEN "commit" ELSE "rollback")
    /\ UNCHANGED <<disk, recorded, effects, applied, compared, todo, file>>

\* What COMMIT makes last.
Publish(r) ==
    /\ recorded' = [recorded EXCEPT ![file[r]] = compared[r][file[r]]]
    /\ effects' = [effects EXCEPT ![file[r]] = @ + 1]

\* The answer of COMMIT arrives, or is lost and the run throws.
Commit(r) ==
    /\ phase[r] = "commit"
    /\ Publish(r)
    /\ Goto(r, "loop") \/ Goto(r, "failed")
    /\ file' = [file EXCEPT ![r] = NoFile]
    /\ UNCHANGED <<disk, applied, compared, todo>>

\* A mutant of Rollback: the loop goes on with the next file.
RollbackAndGoOn(r) ==
    /\ phase[r] = "rollback"
    /\ Goto(r, "loop")
    /\ file' = [file EXCEPT ![r] = NoFile]
    /\ UNCHANGED <<disk, recorded, effects, applied, compared, todo>>

\* ROLLBACK, and the run gives up.
Rollback(r) ==
    /\ phase[r] = "rollback"
    /\ Goto(r, "failed")
    /\ file' = [file EXCEPT ![r] = NoFile]
    /\ UNCHANGED <<disk, recorded, effects, applied, compared, todo>>

\* Any statement of the transaction fails.
StatementFails(r) ==
    /\ phase[r] \in {"sql", "insert", "commit"}
    /\ Goto(r, "rollback")
    /\ UNCHANGED <<disk, recorded, effects, applied, compared, todo, file>>

\* The loop is through.
Finish(r) ==
    /\ phase[r] = "loop" /\ todo[r] = {}
    /\ Goto(r, "done")
    /\ UNCHANGED <<disk, recorded, effects, applied, compared, todo, file>>

\* The process dies, or fails outside a transaction.
Crash(r) ==
    /\ phase[r] \notin {"idle", "done", "failed"}
    /\ Goto(r, "failed")
    /\ file' = [file EXCEPT ![r] = NoFile]
    /\ UNCHANGED <<disk, recorded, effects, applied, compared, todo>>

Step(r) ==
    \/ ReadApplied(r) \/ TakeFile(r)
    \/ RunSql(r) \/ InsertRecord(r) \/ Commit(r) \/ Rollback(r)
    \/ Finish(r)

Next ==
    \/ \E f \in Files, sum \in Checksums : AddFile(f, sum) \/ EditFile(f, sum)
    \/ \E r \in Runners : Start(r) \/ Step(r) \/ StatementFails(r) \/ Crash(r)

Spec == Init /\ [][Next]_vars

-----------------------------------------------------------------------------
\* What migrations must keep

\* "Applies every .sql file exactly once": however many runs overlap, die and
\* are started again, the SQL of a file takes effect at most once, and it has
\* exactly if the file is recorded.
AppliedOnce ==
    \A f \in Files : effects[f] = (IF recorded[f] = Absent THEN 0 ELSE 1)

\* A run that succeeds leaves nothing out: every file it listed is recorded, by
\* it or by a run before it, with the content this run read.
SuccessIsUpToDate ==
    \A r \in Runners, f \in Files :
        phase[r] = "done" /\ compared[r][f] # Absent => recorded[f] = compared[r][f]

\* "In filename order": a file is applied only after every file before it, by
\* whichever run, and a file that fails keeps those behind it from being tried.
AppliedInOrder ==
    \A f, g \in Files : f < g /\ f \in Present /\ recorded[g] # Absent => recorded[f] # Absent
=============================================================================
