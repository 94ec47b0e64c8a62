------------------------ MODULE MigrationRunnerProofs ------------------------
(***************************************************************************)
(* Proofs that overlapping migration runs keep AppliedOnce, AppliedInOrder *)
(* and SuccessIsUpToDate, for any number of runs, files and contents.      *)
(***************************************************************************)
EXTENDS MigrationRunner, TLAPS

USE FilesAssumption, AbsentAssumption

Contents == Checksums \cup {Absent}

RunnersTypeOK ==
    /\ disk \in [Files -> Contents]
    /\ recorded \in [Files -> Contents]
    /\ effects \in [Files -> Nat]
    /\ phase \in [Runners -> {"idle", "select", "loop", "sql", "insert", "commit", "rollback",
                              "done", "failed"}]
    /\ applied \in [Runners -> [Files -> Contents]]
    /\ compared \in [Runners -> [Files -> Contents]]
    /\ todo \in [Runners -> SUBSET Files]
    /\ file \in [Runners -> Files \cup {NoFile}]

\* Run r is in the transaction of a file.
Working(r) == phase[r] \in {"sql", "insert", "commit", "rollback"}

\* The file a run works on was listed and read, and is taken from the list; a
\* record about to be committed is not there yet.
AtWork(r) ==
    /\ todo[r] \subseteq Present
    /\ Working(r) => /\ file[r] \in Present \ todo[r]
                     /\ compared[r][file[r]] # Absent
    /\ phase[r] = "commit" => recorded[file[r]] = Absent

\* The rows a run read stay, and it has left behind only files recorded as it
\* read them.
BehindIsRecorded(r) ==
    \A f \in Files :
        /\ applied[r][f] # Absent => recorded[f] = applied[r][f]
        /\ (/\ phase[r] # "failed"
            /\ compared[r][f] # Absent
            /\ ~(Working(r) /\ f = file[r]))
                => recorded[f] = compared[r][f]

\* No file before the one in hand, or before one on the list, is passed over.
NonePassedOver(r) ==
    \A f, g \in Files :
        f < g /\ f \in Present =>
            /\ g \in todo[r] => f \in todo[r] \/ compared[r][f] # Absent
            /\ Working(r) /\ g = file[r] => recorded[f] # Absent

InRun(r) == AtWork(r) /\ BehindIsRecorded(r) /\ NonePassedOver(r)

CommitsDiffer ==
    \A q, r \in Runners :
        q # r /\ phase[q] = "commit" /\ phase[r] = "commit" => file[q] # file[r]

RecordedIsPresent == \A f \in Files : recorded[f] # Absent => f \in Present

RunnersInv ==
    /\ RunnersTypeOK
    /\ \A r \in Runners : InRun(r)
    /\ CommitsDiffer
    /\ RecordedIsPresent
    /\ AppliedOnce
    /\ AppliedInOrder

-----------------------------------------------------------------------------

\* Run r does not move.
Untouched(r) ==
    /\ phase'[r] = phase[r] /\ applied'[r] = applied[r] /\ compared'[r] = compared[r]
    /\ todo'[r] = todo[r] /\ file'[r] = file[r]

Shared == <<disk, recorded, effects>>

\* No run has begun and nothing is recorded.
LEMMA InitHolds == Init => RunnersInv
<1> SUFFICES ASSUME Init PROVE RunnersInv
  OBVIOUS
<1>1. RunnersTypeOK
  BY DEF Init, RunnersTypeOK, Contents, NoneOf
<1>2. \A r \in Runners : InRun(r)
  BY DEF Init, InRun, AtWork, BehindIsRecorded, NonePassedOver, Working, NoneOf
<1>3. CommitsDiffer /\ RecordedIsPresent /\ AppliedOnce /\ AppliedInOrder
  BY DEF Init, CommitsDiffer, RecordedIsPresent, AppliedOnce, AppliedInOrder, NoneOf
<1> QED BY <1>1, <1>2, <1>3 DEF RunnersInv

\* A run that does not move stays in order while nothing is committed.
LEMMA OthersStayInRun ==
    ASSUME NEW r \in Runners, Untouched(r), UNCHANGED Shared, InRun(r)
    PROVE  InRun(r)'
  BY DEF Untouched, Shared, InRun, AtWork, BehindIsRecorded, NonePassedOver, Working, Present

\* A step of one run that commits nothing has to keep only its own order, and
\* to enter no commit another run is in.
LEMMA LocalStep ==
    ASSUME RunnersInv, NEW r \in Runners, UNCHANGED Shared,
           \A q \in Runners \ {r} : Untouched(q),
           RunnersTypeOK', InRun(r)', CommitsDiffer'
    PROVE  RunnersInv'
<1>1. \A q \in Runners : InRun(q)'
  BY OthersStayInRun DEF RunnersInv
<1>2. RecordedIsPresent' /\ AppliedOnce' /\ AppliedInOrder'
  BY DEF RunnersInv, Shared, RecordedIsPresent, AppliedOnce, AppliedInOrder, Present
<1> QED BY <1>1, <1>2 DEF RunnersInv

\* The same of a step that does not lead to a commit.
LEMMA QuietStep ==
    ASSUME RunnersInv, NEW r \in Runners, UNCHANGED Shared,
           \A q \in Runners \ {r} : Untouched(q),
           phase'[r] # "commit", RunnersTypeOK', InRun(r)'
    PROVE  RunnersInv'
<1>1. CommitsDiffer'
  BY DEF RunnersInv, CommitsDiffer, Untouched
<1> QED BY <1>1, LocalStep

-----------------------------------------------------------------------------
\* The directory

\* A file that is added comes after all that are there, so after all that are
\* recorded, listed or in hand; an edited file stays where it is.
LEMMA DirectoryStep ==
    ASSUME RunnersInv, NEW f \in Files, NEW sum \in Checksums,
           AddFile(f, sum) \/ EditFile(f, sum)
    PROVE  RunnersInv'
<1>1. RunnersTypeOK'
  BY DEF RunnersInv, RunnersTypeOK, Contents, AddFile, EditFile
<1>2. /\ disk \in [Files -> Contents]
      /\ disk' = [disk EXCEPT ![f] = sum]
      /\ UNCHANGED <<recorded, effects, phase, applied, compared, todo, file>>
      /\ f \in Present \/ \A g \in Present : g < f
  BY DEF RunnersInv, RunnersTypeOK, AddFile, EditFile
<1>3. Present' = Present \cup {f}
  BY <1>2 DEF Present
<1>4. \A r \in Runners : InRun(r)'
  <2> SUFFICES ASSUME NEW r \in Runners PROVE InRun(r)'
    OBVIOUS
  <2>1. InRun(r) /\ (Working(r)' <=> Working(r))
    BY <1>2 DEF RunnersInv, Working
  <2>2. AtWork(r)' /\ BehindIsRecorded(r)'
    BY <1>2, <1>3, <2>1 DEF InRun, AtWork, BehindIsRecorded
  <2>3. NonePassedOver(r)'
    <3> SUFFICES ASSUME NEW g \in Files, NEW h \in Files, g < h, g \in Present'
                 PROVE  /\ h \in todo[r] => g \in todo[r] \/ compared[r][g] # Absent
                        /\ Working(r) /\ h = file[r] => recorded[g] # Absent
      BY <1>2, <2>1 DEF NonePassedOver
    <3>1. g \in Present => /\ h \in todo[r] => g \in todo[r] \/ compared[r][g] # Absent
                           /\ Working(r) /\ h = file[r] => recorded[g] # Absent
      BY <2>1 DEF InRun, NonePassedOver
    <3>2. h \in todo[r] \/ (Working(r) /\ h = file[r]) => h \in Present
      BY <2>1 DEF InRun, AtWork
    <3>3. h \in Present => g \in Present
      BY <1>2, <1>3
    <3> QED BY <3>1, <3>2, <3>3
  <2> QED BY <2>2, <2>3 DEF InRun
<1>5. CommitsDiffer' /\ AppliedOnce'
  BY <1>2 DEF RunnersInv, CommitsDiffer, AppliedOnce
<1>6. RecordedIsPresent'
  BY <1>2, <1>3 DEF RunnersInv, RecordedIsPresent
<1>7. AppliedInOrder'
  <2> SUFFICES ASSUME NEW g \in Files, NEW h \in Files,
                      g < h, g \in Present', recorded[h] # Absent
               PROVE  recorded[g] # Absent
    BY <1>2 DEF AppliedInOrder
  <2>1. h \in Present
    BY DEF RunnersInv, RecordedIsPresent
  <2>2. g \in Present
    BY <1>2, <1>3, <2>1
  <2> QED BY <2>2 DEF RunnersInv, AppliedInOrder
<1> QED BY <1>1, <1>4, <1>5, <1>6, <1>7 DEF RunnersInv

-----------------------------------------------------------------------------
\* One run

LEMMA StartStep ==
    ASSUME RunnersInv, NEW r \in Runners, Start(r)
    PROVE  RunnersInv'
<1>1. RunnersTypeOK'
  BY DEF RunnersInv, RunnersTypeOK, Start, Goto, Present, Contents, NoneOf
<1>2. /\ UNCHANGED Shared /\ \A q \in Runners \ {r} : Untouched(q)
      /\ phase'[r] = "select" /\ todo'[r] = Present /\ Present' = Present
      /\ applied'[r] = NoneOf /\ compared'[r] = NoneOf
  BY DEF RunnersInv, RunnersTypeOK, Start, Goto, Shared, Untouched, Present
<1>3. InRun(r)'
  BY <1>2 DEF InRun, AtWork, BehindIsRecorded, NonePassedOver, Working, NoneOf
<1> QED BY <1>1, <1>2, <1>3, QuietStep

\* What a run reads of schema_migrations is so when it reads it.
LEMMA ReadAppliedStep ==
    ASSUME RunnersInv, NEW r \in Runners, ReadApplied(r)
    PROVE  RunnersInv'
<1>1. RunnersTypeOK'
  BY DEF RunnersInv, RunnersTypeOK, ReadApplied, Goto
<1>2. /\ UNCHANGED Shared /\ \A q \in Runners \ {r} : Untouched(q)
      /\ phase[r] = "select" /\ phase'[r] = "loop" /\ applied'[r] = recorded
      /\ UNCHANGED <<compared, todo, file>>
  BY DEF RunnersInv, RunnersTypeOK, ReadApplied, Goto, Shared, Untouched
<1>3. InRun(r)'
  BY <1>2 DEF RunnersInv, InRun, AtWork, BehindIsRecorded, NonePassedOver, Working, Shared,
              Present
<1> QED BY <1>1, <1>2, <1>3, QuietStep

\* The file taken is the first on the list, so every file before it is behind
\* and recorded.
LEMMA TakeFileStep ==
    ASSUME RunnersInv, NEW r \in Runners, TakeFile(r)
    PROVE  RunnersInv'
<1>1. PICK f \in Files :
        /\ IsNext(r, f)
        /\ todo' = [todo EXCEPT ![r] = @ \ {f}]
        /\ compared' = [compared EXCEPT ![r][f] = disk[f]]
        /\ \/ /\ applied[r][f] = Absent
              /\ file' = [file EXCEPT ![r] = f]
              /\ Goto(r, "sql")
           \/ /\ applied[r][f] = disk[f]
              /\ UNCHANGED <<file, phase>>
           \/ /\ applied[r][f] \notin {Absent, disk[f]}
              /\ Goto(r, "failed")
              /\ UNCHANGED file
  BY DEF TakeFile
<1>2. phase[r] = "loop" /\ UNCHANGED <<Shared, applied>> /\ Present' = Present
  BY DEF TakeFile, Shared, Present
<1>3. RunnersTypeOK'
  <2>1. RunnersTypeOK /\ disk[f] \in Contents
    BY DEF RunnersInv, RunnersTypeOK
  <2>2. compared' \in [Runners -> [Files -> Contents]] /\ todo' \in [Runners -> SUBSET Files]
    BY <1>1, <2>1 DEF RunnersTypeOK
  <2>3. /\ phase' \in {phase, [phase EXCEPT ![r] = "sql"], [phase EXCEPT ![r] = "failed"]}
        /\ file' \in {file, [file EXCEPT ![r] = f]}
    BY <1>1 DEF Goto
  <2>4. phase' \in [Runners -> {"idle", "select", "loop", "sql", "insert", "commit",
                                "rollback", "done", "failed"}]
    BY <2>1, <2>3 DEF RunnersTypeOK
  <2>5. file' \in [Runners -> Files \cup {NoFile}]
    BY <2>1, <2>3 DEF RunnersTypeOK
  <2> QED BY <1>2, <2>1, <2>2, <2>4, <2>5 DEF RunnersTypeOK, Shared
<1>4. /\ \A q \in Runners \ {r} : Untouched(q)
      /\ todo'[r] = todo[r] \ {f}
      /\ compared'[r] = [compared[r] EXCEPT ![f] = disk[f]]
      /\ phase'[r] \in {"sql", "loop", "failed"}
  BY <1>1, <1>2 DEF RunnersInv, RunnersTypeOK, Goto, Untouched
<1>5. /\ f \in todo[r] /\ f \in Present /\ disk[f] # Absent
      /\ \A g \in todo[r] : g \in Files /\ ~(g < f)
      /\ compared[r] \in [Files -> Contents]
  BY <1>1 DEF RunnersInv, RunnersTypeOK, InRun, AtWork, IsNext, Present
<1>6. AtWork(r) /\ BehindIsRecorded(r) /\ NonePassedOver(r) /\ ~Working(r)
  BY <1>2 DEF RunnersInv, InRun, Working
<1>7. AtWork(r)'
  <2>1. todo'[r] \subseteq Present'
    BY <1>2, <1>4, <1>6 DEF AtWork
  <2>2. Working(r)' => file'[r] = f
    BY <1>1, <1>2 DEF Working, Goto, RunnersInv, RunnersTypeOK
  <2>3. f \in Present' \ todo'[r] /\ compared'[r][f] # Absent
    BY <1>2, <1>4, <1>5
  <2> QED BY <1>4, <2>1, <2>2, <2>3 DEF AtWork
<1>8. BehindIsRecorded(r)'
  <2> SUFFICES ASSUME NEW g \in Files
               PROVE  /\ applied'[r][g] # Absent => recorded'[g] = applied'[r][g]
                      /\ (/\ phase'[r] # "failed"
                          /\ compared'[r][g] # Absent
                          /\ ~(Working(r)' /\ g = file'[r]))
                              => recorded'[g] = compared'[r][g]
    BY DEF BehindIsRecorded
  <2>1. applied[r][g] # Absent => recorded[g] = applied[r][g]
    BY <1>6 DEF BehindIsRecorded
  <2>2. CASE g # f
    BY <1>2, <1>4, <1>5, <1>6, <2>1, <2>2 DEF BehindIsRecorded, Shared
  <2>3. CASE g = f
    <3>1. compared'[r][g] = disk[f]
      BY <1>4, <1>5, <2>3
    <3>2. CASE applied[r][f] = Absent /\ file' = [file EXCEPT ![r] = f] /\ Goto(r, "sql")
      BY <1>2, <2>1, <2>3, <3>2 DEF Goto, Working, RunnersInv, RunnersTypeOK, Shared
    <3>3. CASE applied[r][f] = disk[f]
      BY <1>2, <1>5, <2>1, <2>3, <3>1, <3>3 DEF Shared
    <3>4. CASE Goto(r, "failed")
      BY <1>2, <2>1, <2>3, <3>4 DEF Goto, RunnersInv, RunnersTypeOK, Shared
    <3> QED BY <1>1, <3>2, <3>3, <3>4
  <2> QED BY <2>2, <2>3
<1>9. NonePassedOver(r)'
  <2> SUFFICES ASSUME NEW g \in Files, NEW h \in Files, g < h, g \in Present
               PROVE  /\ h \in todo'[r] => g \in todo'[r] \/ compared'[r][g] # Absent
                      /\ Working(r)' /\ h = file'[r] => recorded'[g] # Absent
    BY <1>2 DEF NonePassedOver
  <2>1. h \in todo[r] => g \in todo[r] \/ compared[r][g] # Absent
    BY <1>6 DEF NonePassedOver
  <2>2. h \in todo'[r] => g \in todo'[r] \/ compared'[r][g] # Absent
    BY <1>4, <1>5, <2>1
  <2>3. Working(r)' => file'[r] = f
    BY <1>1, <1>2 DEF Working, Goto, RunnersInv, RunnersTypeOK
  <2>4. h = f => recorded[g] # Absent
    BY <1>2, <1>5, <1>6, <2>1 DEF BehindIsRecorded
  <2> QED BY <1>2, <2>2, <2>3, <2>4 DEF Shared
<1> QED BY <1>2, <1>3, <1>4, <1>7, <1>8, <1>9, QuietStep DEF InRun

\* Within the transaction, and where it is given up.
LEMMA InTransaction ==
    ASSUME RunnersInv, NEW r \in Runners,
           RunSql(r) \/ StatementFails(r) \/ Rollback(r) \/ Finish(r) \/ Crash(r)
    PROVE  RunnersInv'
<1>1. RunnersTypeOK'
  BY DEF RunnersInv, RunnersTypeOK, RunSql, StatementFails, Rollback, Finish, Crash, Goto
<1>2. /\ UNCHANGED Shared /\ \A q \in Runners \ {r} : Untouched(q)
      /\ UNCHANGED <<applied, compared, todo>>
      /\ \/ /\ Working(r) /\ Working(r)' /\ phase'[r] # "commit" /\ file'[r] = file[r]
         \/ phase[r] = "loop" /\ phase'[r] = "done" 
         \/ phase'[r] = "failed"
  BY DEF RunnersInv, RunnersTypeOK, RunSql, StatementFails, Rollback, Finish, Crash, Goto,
         Shared, Untouched, Working
<1>3. InRun(r)'
  BY <1>2 DEF RunnersInv, InRun, AtWork, BehindIsRecorded, NonePassedOver, Working, Shared,
              Present
<1> QED BY <1>1, <1>2, <1>3, QuietStep DEF Working

\* The primary key: a run that gets past it is the only one with its file.
LEMMA InsertRecordStep ==
    ASSUME RunnersInv, NEW r \in Runners, InsertRecord(r)
    PROVE  RunnersInv'
<1>1. RunnersTypeOK'
  BY DEF RunnersInv, RunnersTypeOK, InsertRecord, Goto
<1>2. /\ UNCHANGED Shared /\ \A q \in Runners \ {r} : Untouched(q)
      /\ UNCHANGED <<applied, compared, todo, file>>
      /\ phase[r] = "insert"
      /\ phase'[r] = IF recorded[file[r]] = Absent THEN "commit" ELSE "rollback"
  BY DEF RunnersInv, RunnersTypeOK, InsertRecord, Goto, Shared, Untouched
<1>3. InRun(r)'
  BY <1>2 DEF RunnersInv, InRun, AtWork, BehindIsRecorded, NonePassedOver, Working, Shared,
              Present
<1>4. CommitsDiffer'
  BY <1>2 DEF RunnersInv, CommitsDiffer, InsertRecord, Pending, Untouched
<1> QED BY <1>1, <1>2, <1>3, <1>4, LocalStep

\* COMMIT adds a record where there was none, so no other run loses what it
\* relies on.
LEMMA CommitStep ==
    ASSUME RunnersInv, NEW r \in Runners, Commit(r)
    PROVE  RunnersInv'
<1> DEFINE f == file[r]
<1>1. /\ phase[r] = "commit" /\ f \in Files /\ f \in Present /\ recorded[f] = Absent
      /\ compared[r][f] \in Checksums
      /\ \A q \in Runners : q # r /\ phase[q] = "commit" => file[q] # f
  <2>1. phase[r] = "commit" /\ Working(r) /\ AtWork(r)
    BY DEF Commit, Working, RunnersInv, InRun
  <2>2. f \in Present /\ f \in Files /\ recorded[f] = Absent /\ compared[r][f] # Absent
    BY <2>1 DEF AtWork, Present
  <2>3. compared[r][f] \in Checksums
    <3>1. compared[r] \in [Files -> Contents]
      BY DEF RunnersInv, RunnersTypeOK
    <3>2. compared[r][f] \in Contents
      BY <3>1, <2>2
    <3> QED BY <3>2, <2>2 DEF Contents
  <2>4. \A q \in Runners : q # r /\ phase[q] = "commit" => file[q] # f
    BY <2>1 DEF RunnersInv, CommitsDiffer
  <2> QED BY <2>1, <2>2, <2>3, <2>4
<1>2. /\ recorded' = [recorded EXCEPT ![f] = compared[r][f]]
      /\ effects' = [effects EXCEPT ![f] = @ + 1]
      /\ phase' = [phase EXCEPT ![r] = "loop"] \/ phase' = [phase EXCEPT ![r] = "failed"]
      /\ file' = [file EXCEPT ![r] = NoFile]
      /\ UNCHANGED <<disk, applied, compared, todo>>
      /\ Present' = Present
  BY DEF Commit, Publish, Goto, Present
<1>3. RunnersTypeOK'
  <2>1. recorded' \in [Files -> Contents] /\ effects' \in [Files -> Nat]
    <3>1. recorded \in [Files -> Contents] /\ effects \in [Files -> Nat]
      BY DEF RunnersInv, RunnersTypeOK
    <3>2. f \in Files /\ compared[r][f] \in Contents
      BY <1>1 DEF Contents
    <3>3. recorded' \in [Files -> Contents]
      BY <1>2, <3>1, <3>2
    <3>4. effects' \in [Files -> Nat]
      <4>1. effects[f] = 0
        BY <1>1 DEF RunnersInv, AppliedOnce
      <4>2. effects' = [effects EXCEPT ![f] = 1]
        BY <1>2, <4>1
      <4> QED BY <3>1, <3>2, <4>2
    <3> QED BY <3>3, <3>4
  <2>2. phase' \in [Runners -> {"idle", "select", "loop", "sql", "insert", "commit",
                                "rollback", "done", "failed"}]
        /\ file' \in [Runners -> Files \cup {NoFile}]
    BY <1>2 DEF RunnersInv, RunnersTypeOK
  <2> QED BY <1>2, <2>1, <2>2 DEF RunnersInv, RunnersTypeOK
<1>4. \A g \in Files : /\ g # f => recorded'[g] = recorded[g]
                       /\ recorded[g] # Absent => recorded'[g] = recorded[g]
                       /\ recorded'[f] = compared[r][f] /\ recorded'[f] # Absent
  BY <1>1, <1>2 DEF RunnersInv, RunnersTypeOK
<1>5. phase'[r] \in {"loop", "failed"} /\ ~Working(r)' /\ Working(r)
  BY <1>1, <1>2 DEF RunnersInv, RunnersTypeOK, Working
<1>6. InRun(r)'
  <2>1. AtWork(r)'
    BY <1>2, <1>5 DEF RunnersInv, InRun, AtWork
  <2>2. BehindIsRecorded(r)'
    BY <1>1, <1>2, <1>4, <1>5 DEF RunnersInv, InRun, BehindIsRecorded
  <2>3. NonePassedOver(r)'
    BY <1>2, <1>5 DEF RunnersInv, InRun, NonePassedOver
  <2> QED BY <2>1, <2>2, <2>3 DEF InRun
<1>7. ASSUME NEW q \in Runners, q # r PROVE InRun(q)'
  <2>1. Untouched(q) /\ (Working(q)' <=> Working(q)) /\ InRun(q)
    BY <1>2, <1>7 DEF RunnersInv, RunnersTypeOK, Untouched, Working
  <2>2. AtWork(q)'
    BY <1>1, <1>2, <1>4, <1>7, <2>1 DEF InRun, AtWork, Untouched, Working
  <2>3. BehindIsRecorded(q)'
    BY <1>2, <1>4, <2>1, <1>1 DEF InRun, BehindIsRecorded, Untouched, RunnersInv, RunnersTypeOK
  <2>4. NonePassedOver(q)'
    BY <1>2, <1>4, <2>1 DEF InRun, NonePassedOver, Untouched
  <2> QED BY <2>2, <2>3, <2>4 DEF InRun
<1>8. CommitsDiffer'
  BY <1>2, <1>5 DEF RunnersInv, RunnersTypeOK, CommitsDiffer
<1>9. RecordedIsPresent' /\ AppliedOnce'
  BY <1>1, <1>2, <1>4 DEF RunnersInv, RunnersTypeOK, RecordedIsPresent, AppliedOnce
<1>10. AppliedInOrder'
  <2>1. \A g \in Files : g < f /\ g \in Present => recorded[g] # Absent
    BY <1>1, <1>5 DEF RunnersInv, InRun, NonePassedOver
  <2> QED BY <1>1, <1>2, <1>4, <2>1 DEF RunnersInv, AppliedInOrder
<1> QED BY <1>3, <1>6, <1>7, <1>8, <1>9, <1>10 DEF RunnersInv

-----------------------------------------------------------------------------

\* Every step of a run, and of the directory, keeps the invariant.
LEMMA NextHolds == RunnersInv /\ [Next]_vars => RunnersInv'
<1> SUFFICES ASSUME RunnersInv, [Next]_vars PROVE RunnersInv'
  OBVIOUS
<1>1. ASSUME NEW f \in Files, NEW sum \in Checksums, AddFile(f, sum) \/ EditFile(f, sum)
      PROVE  RunnersInv'
  BY <1>1, DirectoryStep
<1>2. ASSUME NEW r \in Runners, Start(r) \/ Step(r) \/ StatementFails(r) \/ Crash(r)
      PROVE  RunnersInv'
  BY <1>2, StartStep, ReadAppliedStep, TakeFileStep, InTransaction, InsertRecordStep, CommitStep
     DEF Step
<1>3. CASE UNCHANGED vars
  BY <1>3 DEF vars, RunnersInv, RunnersTypeOK, InRun, AtWork, BehindIsRecorded, NonePassedOver,
              Working, Present, CommitsDiffer, RecordedIsPresent, AppliedOnce, AppliedInOrder
<1> QED BY <1>1, <1>2, <1>3 DEF Next

\* The inductive invariant holds of every behaviour.
THEOREM RunnersInvHolds == Spec => []RunnersInv
  BY InitHolds, NextHolds, PTL DEF Spec

\* The SQL of a file takes effect at most once, and has exactly if the file is
\* recorded, however many runs overlap, fail, die and start again (migrate.js).
THEOREM FilesAppliedOnce == Spec => []AppliedOnce
<1>1. RunnersInv => AppliedOnce
  BY DEF RunnersInv
<1> QED BY <1>1, RunnersInvHolds, PTL

\* A file is recorded only when every file before it is (migrate.js).
THEOREM FilesAppliedInOrder == Spec => []AppliedInOrder
<1>1. RunnersInv => AppliedInOrder
  BY DEF RunnersInv
<1> QED BY <1>1, RunnersInvHolds, PTL

\* A run that succeeds leaves every file it listed recorded with the content it
\* read (migrate.js).
THEOREM SuccessfulRunIsUpToDate == Spec => []SuccessIsUpToDate
<1>1. RunnersInv => SuccessIsUpToDate
  BY DEF RunnersInv, InRun, BehindIsRecorded, Working, SuccessIsUpToDate
<1> QED BY <1>1, RunnersInvHolds, PTL
=============================================================================
