------------------------- MODULE PackageApplyProofs -------------------------
(***************************************************************************)
(* Theorems about NxPackageManager_Apply (PackageApply), discovery and the *)
(* self-update (PackageUpdate), for any packages, manifests, trees, bounds *)
(* and mtimes, and for the faults that each theorem names.                 *)
(***************************************************************************)
EXTENDS PackageUpdate, PackageJournalProofs

-----------------------------------------------------------------------------
(* The shape of an Apply *)

Early == {"verify", "dependencies", "install"}
Fresh == Early \cup {"installing"}

\* Where the installer is while Apply is in a phase.
Running ==
    /\ phase # "idle" => target \in Manifests
    /\ phase \notin {"idle", "installing", "rolling"} => pc = "idle"
    /\ phase = "installing" => /\ pc # "idle" /\ op = "install" /\ before = start
                               /\ pkg = target.id /\ files = target.files
    /\ phase = "rolling" => pc = "replay" /\ op = "rollback_tx" /\ pkg = target.id /\ txid # 0
    /\ phase \in Early \cup {"idle"} => start = file

\* What the result says before the phase that sets it.
Results ==
    /\ phase \in Fresh => txid = 0 /\ changed = 0
    /\ phase \in Fresh \cup {"configure", "build", "warning-gate", "tests"} => qa = 0
    /\ phase \notin {"certify", "done", "returned"} => success = 0
    /\ phase \notin {"done", "returned"} => rolledBack = 0 /\ generated = 0

ApplyType ==
    /\ ATypeOK
    /\ report \in [Packages -> [status : Status, files : Seq(Mapping)]]
    /\ Outcome
    /\ Running
    /\ Results

\* The installer makes one of its own steps, or none, whatever Apply does.
LEMMA InstallerStep ==
    ASSUME ApplyType, [ANext]_avars
    PROVE  [Next]_vars
<1>1. ASSUME VerifyPasses \/ VerifyFails \/ LogFails \/ CheckDependencies PROVE UNCHANGED vars
  BY <1>1 DEF VerifyPasses, VerifyFails, LogFails, CheckDependencies, Enter
<1>2. ASSUME Configure \/ Build \/ WarningGate \/ Tests \/ Artifacts \/ Documentation
      PROVE  UNCHANGED vars
  BY <1>2 DEF Configure, Build, WarningGate, Tests, Artifacts, Documentation, Command, Enter
<1>3. ASSUME Certify \/ NoRollback \/ Finish \/ Exit \/ (\E m \in Manifests : Apply(m))
      PROVE  UNCHANGED vars
  BY <1>3 DEF Certify, NoRollback, Finish, Exit, Apply, Enter
<1>4. ASSUME CallInstall PROVE Next
  <2>1. target \in Manifests /\ Begin(target)
    BY <1>4 DEF CallInstall, ApplyType, Running
  <2>. QED  BY <2>1 DEF Next, Call
<1>5. ASSUME CallRollback PROVE Next
  <2>1. target \in Manifests /\ txid \in 1 .. TxBound /\ RollbackTransaction(target.id, txid)
    BY <1>5, ConstantsAssumption DEF CallRollback, ApplyType, Running, ATypeOK
  <2>2. target.id \in Packages
    BY <2>1, ConstantsAssumption
  <2>. QED  BY <2>1, <2>2 DEF Next, Call
<1>6. ASSUME RunInstall \/ RunRollback PROVE Next
  BY <1>6 DEF RunInstall, RunRollback, Next
<1>7. ASSUME Die PROVE [Next]_vars
  BY <1>7 DEF Die, Next
<1>8. ASSUME Operator PROVE Next
  BY <1>8 DEF Operator, Next
<1>9. ASSUME UNCHANGED avars PROVE UNCHANGED vars
  BY <1>9 DEF avars
<1>. QED
  BY <1>1, <1>2, <1>3, <1>4, <1>5, <1>6, <1>7, <1>8, <1>9 DEF ANext, ApplyStep

\* An install runs on until it records its result, over the files it has.
LEMMA InstallRuns ==
    ASSUME op = "install", InstallStep \/ ReplayStep
    PROVE  IF pc = "record"
           THEN pc' = "idle" /\ UNCHANGED <<file, backup, archive>>
           ELSE pc' # "idle" /\ UNCHANGED <<op, pkg, files, before>>
<1>. USE DEF Goto, Fail, disk, ghosts
<1>1. CASE Record
  BY <1>1 DEF Record, Return
<1>2. CASE MkdirFails \/ SkipUnchanged \/ NoBackup \/ BackUp \/ Journal \/ MappingsDone
  BY <1>2 DEF MkdirFails, SkipUnchanged, NoBackup, BackUp, Journal, MappingsDone, AtMapping
<1>3. CASE CopyPayload
  BY <1>3 DEF CopyPayload
<1>4. CASE NoOp \/ RemoveCommitted \/ RenamePending \/ ArchiveLog \/ AppendIndex \/ WriteCounter
  BY <1>4 DEF NoOp, RemoveCommitted, RenamePending, ArchiveLog, AppendIndex, WriteCounter
<1>5. CASE StartUndo \/ MarkRolledBack \/ ReplayRestore \/ ReplayDelete \/ ReplayDone
  BY <1>5 DEF StartUndo, MarkRolledBack, ReplayRestore, ReplayDelete, ReplayDone
<1>. QED  BY <1>1, <1>2, <1>3, <1>4, <1>5 DEF InstallStep, ReplayStep

\* A replay runs on until its log has no line left.
LEMMA RollbackRuns ==
    ASSUME pc = "replay", op = "rollback_tx", ReplayStep
    PROVE  \/ pc' = "replay" /\ UNCHANGED <<op, pkg, log>> /\ (ReplayRestore \/ ReplayDelete)
           \/ pc' = "idle" /\ ~LineLeft /\ UNCHANGED file
BY DEF ReplayStep, ReplayRestore, ReplayDelete, ReplayDone, Return, disk

\* A report is written with a status, and the files of the package.
LEMMA ReportType ==
    ASSUME ApplyType, target \in Manifests, WriteReport \/ ReportFails
    PROVE  /\ report' \in [Packages -> [status : Status, files : Seq(Mapping)]]
           /\ generated' \in {generated, 1} /\ disturbed' \subseteq Packages
<1>1. target.files \in Seq(Mapping) /\ <<>> \in Seq(Mapping)
  BY ConstantsAssumption
<1>2. Verdict \in Status /\ "blank" \in Status
  BY DEF Verdict, Status
<1>3. /\ report \in [Packages -> [status : Status, files : Seq(Mapping)]]
      /\ disturbed \subseteq Packages
  BY DEF ApplyType, ATypeOK
<1>4. CASE WriteReport
  <2>1. [status |-> Verdict, files |-> target.files] \in [status : Status, files : Seq(Mapping)]
    BY <1>1, <1>2
  <2>. QED  BY <1>3, <1>4, <2>1 DEF WriteReport
<1>5. CASE ReportFails
  <2>1. [status |-> "blank", files |-> <<>>] \in [status : Status, files : Seq(Mapping)]
    BY <1>1, <1>2
  <2>. QED  BY <1>3, <1>5, <2>1 DEF ReportFails
<1>. QED  BY <1>4, <1>5

LEMMA ApplyInit == AInit => ApplyType
<1>. SUFFICES ASSUME AInit PROVE ApplyType
  OBVIOUS
<1>1. TypeOK /\ Outcome /\ pc = "idle" /\ file \in [Paths -> State]
  BY TypeInit, OutcomeInit DEF AInit, Init, TypeOK, DiskType
<1>2. report \in [Packages -> [status : Status, files : Seq(Mapping)]]
  BY DEF AInit, Status
<1>3. ATypeOK
  <2>1. \A p \in Packages : report[p].status \in Status /\ report[p].files \in Seq(Mapping)
    BY <1>2
  <2>2. 0 \in 0 .. TxBound /\ 0 \in 0 .. 5
    BY ConstantsAssumption
  <2>. QED  BY <1>1, <2>1, <2>2 DEF AInit, ATypeOK
<1>. QED  BY <1>1, <1>2, <1>3 DEF AInit, ApplyType, Running, Results, Fresh, Early

LEMMA ApplyTypeStep ==
    ASSUME ApplyType, [ANext]_avars
    PROVE  ApplyType'
<1>1. TypeOK' /\ Outcome'
  BY InstallerStep, TypeNext, OutcomeStep DEF ApplyType, ATypeOK
<1>2. file \in [Paths -> State] /\ file' \in [Paths -> State] /\ start \in [Paths -> State]
  BY <1>1 DEF TypeOK, DiskType, ApplyType, ATypeOK
<1>. USE DEF Fresh, Early, Enter, result
<1>3. ASSUME VerifyPasses \/ VerifyFails \/ LogFails \/ CheckDependencies PROVE ApplyType'
  <2>1. /\ phase \in {"verify", "dependencies"}
        /\ phase' \in {"dependencies", "install", "done"}
        /\ logged' \in {0, 1}
        /\ UNCHANGED <<vars, report, target, start, disturbed, changed, txid, warned, qa, success,
                       rolledBack, generated>>
    BY <1>3 DEF VerifyPasses, VerifyFails, LogFails, CheckDependencies, ApplyType, ATypeOK
  <2>2. ATypeOK'
    BY <1>1, <2>1 DEF ApplyType, ATypeOK
  <2>. QED
    BY <1>1, <2>1, <2>2 DEF ApplyType, Running, Results, vars, locals, disk, ghosts
<1>4. ASSUME Configure \/ Build \/ WarningGate \/ Artifacts \/ Documentation \/ NoRollback
      PROVE  ApplyType'
  <2>1. /\ phase \in {"configure", "build", "warning-gate", "qa-repeatability", "documentation",
                      "rollback"}
        /\ phase' \in {"build", "warning-gate", "tests", "documentation", "certify", "rollback",
                       "done"}
        /\ phase' \in {"build", "warning-gate", "tests"} =>
              phase \in {"configure", "build", "warning-gate"}
        /\ phase' # "certify" => success' = success
        /\ phase' # "done" => rolledBack' = rolledBack
        /\ {warned', success', rolledBack'} \subseteq {0, 1}
        /\ UNCHANGED <<vars, report, target, start, disturbed, logged, changed, txid, qa, generated>>
    BY <1>4 DEF Configure, Build, WarningGate, Artifacts, Documentation, NoRollback, Command,
                ApplyType, ATypeOK, Results
  <2>2. ATypeOK'
    BY <1>1, <2>1 DEF ApplyType, ATypeOK
  <2>3. Running' /\ Results'
    BY <1>1, <2>1 DEF ApplyType, Running, Results, vars, locals, disk, ghosts
  <2>. QED  BY <1>1, <2>1, <2>2, <2>3 DEF ApplyType
<1>5. ASSUME Tests PROVE ApplyType'
  <2>1. /\ phase \in {"tests", "qa-repeatability"} /\ phase' \in {"qa-repeatability", "rollback"}
        /\ warned' \in {0, 1} /\ qa' \in {qa, qa + 1}
        /\ phase = "tests" \/ qa < Repetitions(target)
        /\ UNCHANGED <<vars, report, target, start, disturbed, logged, changed, txid, success,
                       rolledBack, generated>>
    BY <1>5 DEF Tests, Command, RunsAfter, ApplyType, ATypeOK
  <2>2. qa' \in 0 .. 5
    <3>1. qa \in 0 .. 5 /\ (phase = "tests" => qa = 0) /\ target \in Manifests
      BY <2>1 DEF ApplyType, ATypeOK, Results, Running
    <3>2. target.qa \in Int
      BY <3>1, ApplyAssumption
    <3>3. Repetitions(target) \in 1 .. 5
      BY <3>2 DEF Repetitions
    <3>. QED  BY <2>1, <3>1, <3>3
  <2>3. ATypeOK'
    BY <1>1, <2>1, <2>2 DEF ApplyType, ATypeOK
  <2>. QED
    BY <1>1, <2>1, <2>3 DEF ApplyType, Running, Results, vars, locals, disk, ghosts
<1>6. ASSUME Certify \/ Finish PROVE ApplyType'
  <2>1. /\ phase \in {"certify", "done"} /\ phase' \in {"done", "returned", "rollback"}
        /\ phase' = "rollback" => success' = 0 /\ generated' = generated /\ phase = "certify"
        /\ success' \in {0, 1}
        /\ UNCHANGED <<vars, target, start, logged, changed, txid, warned, qa, rolledBack>>
        /\ WriteReport \/ ReportFails \/ UNCHANGED <<report, generated, disturbed>>
    BY <1>6 DEF Certify, Finish, ApplyType, ATypeOK, ReportFails
  <2>2. target \in Manifests
    BY <2>1 DEF ApplyType, Running
  <2>3. /\ report' \in [Packages -> [status : Status, files : Seq(Mapping)]]
        /\ generated' \in {0, 1} /\ disturbed' \subseteq Packages
    BY <2>1, <2>2, ReportType DEF ApplyType, ATypeOK
  <2>4. ATypeOK'
    BY <1>1, <2>1, <2>3 DEF ApplyType, ATypeOK
  <2>. QED
    BY <1>1, <2>1, <2>3, <2>4 DEF ApplyType, Running, Results, vars, locals, disk, ghosts
<1>7. ASSUME Exit PROVE ApplyType'
  <2>1. pc = "idle"
    BY <1>7 DEF Exit, ApplyType, Running
  <2>2. ATypeOK'
    BY <1>1, <1>2, <1>7, ConstantsAssumption DEF Exit, ApplyType, ATypeOK, FreshResult
  <2>. QED
    BY <1>1, <1>7, <2>1, <2>2
    DEF Exit, ApplyType, Running, Results, FreshResult, vars, locals, disk, ghosts
<1>8. ASSUME NEW m \in Manifests, Apply(m) PROVE ApplyType'
  <2>1. ATypeOK'
    BY <1>1, <1>2, <1>8, ConstantsAssumption DEF Apply, ApplyType, ATypeOK, FreshResult
  <2>. QED
    BY <1>1, <1>8, <2>1
    DEF Apply, ApplyType, Running, Results, FreshResult, vars, locals, disk, ghosts
<1>9. ASSUME CallInstall PROVE ApplyType'
  <2>1. /\ phase = "install" /\ phase' = "installing" /\ file = file'
        /\ pc' \in {"map", "failed"} /\ op' = "install" /\ pkg' = target.id
        /\ files' = target.files /\ before' = file
        /\ UNCHANGED <<report, target, result, start, disturbed>>
    BY <1>9 DEF CallInstall, Begin
  <2>2. ATypeOK'
    BY <1>1, <2>1 DEF ApplyType, ATypeOK
  <2>3. Running'
    BY <2>1 DEF ApplyType, Running
  <2>4. Results'
    BY <2>1 DEF ApplyType, Results
  <2>. QED  BY <1>1, <2>1, <2>2, <2>3, <2>4 DEF ApplyType
<1>10. ASSUME CallRollback PROVE ApplyType'
  <2>1. /\ phase = "rollback" /\ phase' = "rolling" /\ txid # 0
        /\ pc' = "replay" /\ op' = "rollback_tx" /\ pkg' = target.id
        /\ UNCHANGED <<report, target, result, start, disturbed>>
    BY <1>10 DEF CallRollback, RollbackTransaction, StartReplay
  <2>2. ATypeOK'
    BY <1>1, <2>1 DEF ApplyType, ATypeOK
  <2>3. Running'
    BY <2>1 DEF ApplyType, Running
  <2>4. Results'
    BY <2>1 DEF ApplyType, Results
  <2>. QED  BY <1>1, <2>1, <2>2, <2>3, <2>4 DEF ApplyType
<1>11. ASSUME RunInstall PROVE ApplyType'
  <2>1. /\ phase = "installing" /\ op = "install" /\ before = start
        /\ pkg = target.id /\ files = target.files /\ target \in Manifests
        /\ txid = 0 /\ changed = 0 /\ qa = 0 /\ success = 0 /\ rolledBack = 0 /\ generated = 0
    BY <1>11 DEF RunInstall, ApplyType, Running, Results
  <2>2. UNCHANGED <<report, target, start, disturbed,
                    logged, warned, qa, success, rolledBack, generated>>
    BY <1>11 DEF RunInstall
  <2>3. CASE pc = "record"
    <3>1. pc' = "idle" /\ file' = file
      BY <1>11, <2>1, <2>3, InstallRuns DEF RunInstall
    <3>2. /\ changed' = installed /\ phase' \in {"configure", "done"}
          /\ txid' = IF ok = 1 /\ installed > 0 THEN j ELSE 0
      BY <1>11, <2>3 DEF RunInstall
    <3>3. changed' \in Nat /\ txid' \in 0 .. TxBound
      BY <2>3, <3>2, ConstantsAssumption DEF ApplyType, ATypeOK, Outcome, TypeOK, LocalsType
    <3>. QED
      BY <1>1, <2>1, <2>2, <3>1, <3>2, <3>3 DEF ApplyType, ATypeOK, Running, Results
  <2>4. CASE pc # "record"
    <3>1. pc' # "idle" /\ UNCHANGED <<op, pkg, files, before>>
      BY <1>11, <2>1, <2>4, InstallRuns DEF RunInstall
    <3>2. UNCHANGED <<changed, txid, phase>>
      BY <1>11, <2>4 DEF RunInstall
    <3>. QED
      BY <1>1, <2>1, <2>2, <3>1, <3>2 DEF ApplyType, ATypeOK, Running, Results
  <2>. QED  BY <2>3, <2>4
<1>12. ASSUME RunRollback PROVE ApplyType'
  <2>1. /\ phase = "rolling" /\ pc = "replay" /\ op = "rollback_tx"
        /\ ReplayStep /\ target \in Manifests
        /\ UNCHANGED <<report, target, start, disturbed,
                       logged, changed, txid, warned, qa, success, generated>>
        /\ IF pc' = "idle" THEN rolledBack' \in {0, 1} /\ phase' = "done"
                           ELSE UNCHANGED <<rolledBack, phase>>
    BY <1>12 DEF RunRollback, ApplyType, Running
  <2>2. pc' = "idle" \/ (pc' = "replay" /\ UNCHANGED <<op, pkg>>)
    BY <2>1, RollbackRuns
  <2>3. ATypeOK'
    BY <1>1, <2>1 DEF ApplyType, ATypeOK
  <2>. QED  BY <1>1, <2>1, <2>2, <2>3 DEF ApplyType, Running, Results
<1>13. ASSUME Die PROVE ApplyType'
  <2>1. /\ file' = file /\ phase' = "idle" /\ target' = NoTarget /\ start' = file
        /\ FreshResult /\ disturbed' = Packages /\ UNCHANGED report
    BY <1>13 DEF Die, Crash, vars, disk
  <2>2. ATypeOK'
    BY <1>1, <1>2, <2>1, ConstantsAssumption DEF ApplyType, ATypeOK, FreshResult
  <2>. QED  BY <1>1, <2>1, <2>2 DEF ApplyType, Running, Results, FreshResult
<1>14. ASSUME Operator PROVE ApplyType'
  <2>1. /\ phase = "idle" /\ start' = file' /\ disturbed' \in {disturbed, Packages}
        /\ UNCHANGED <<report, phase, target, result>>
    BY <1>14 DEF Operator
  <2>2. ATypeOK'
    BY <1>1, <1>2, <2>1 DEF ApplyType, ATypeOK
  <2>. QED  BY <1>1, <2>1, <2>2 DEF ApplyType, Running, Results
<1>15. ASSUME UNCHANGED avars PROVE ApplyType'
  <2>1. ATypeOK'
    BY <1>1, <1>15 DEF avars, ApplyType, ATypeOK
  <2>. QED
    BY <1>1, <1>15, <2>1
    DEF avars, vars, locals, disk, ghosts, ApplyType, Running, Results
<1>. QED
  BY <1>3, <1>4, <1>5, <1>6, <1>7, <1>8, <1>9, <1>10, <1>11, <1>12, <1>13, <1>14, <1>15
  DEF ANext, ApplyStep

\* Every variable of Apply keeps its range, whatever fails and whenever the
\* process dies: the id it rolls back is one of the history, and the tests are
\* repeated at most five times.
THEOREM ApplyTypeCorrect == ASpec => []ATypeOK
<1>1. ApplyType => ATypeOK
  BY DEF ApplyType
<1>. QED  BY <1>1, ApplyInit, ApplyTypeStep, PTL DEF ASpec

-----------------------------------------------------------------------------
(* A rollback that is told *)

After == {"configure", "build", "warning-gate", "tests", "qa-repeatability",
          "documentation", "certify", "rollback"}

\* Replaying l for p would turn the tree into the one Apply found.
Restores(l, p) == l # NoLog /\ Undoes(l, p, start) /\ Covers(l, start)

\* The transaction in the result is the way back to the tree Apply found, and
\* a rollback that has met no failure has put back what its lines left do not
\* name.
Recoverable ==
    /\ phase \in After =>
          IF txid = 0 THEN changed = 0 /\ file = start
          ELSE changed > 0 /\ Restores(archive[target.id][txid], target.id)
    /\ phase = "rolling" =>
          /\ changed > 0 /\ Undoes(log, pkg, start)
          /\ ok = 1 => \A d \in Paths : file[d] # start[d] =>
                          \E k \in j .. Len(log) : log[k].dst = d
    /\ rolledBack = 1 => file = start

ApplyInv == ApplyType /\ JournalInv /\ HandedOut /\ Recoverable

\* A replayed line changes no other file, and puts its own back when it says so;
\* when no line fails it does.
LEMMA LinePutsBack ==
    ASSUME LogsReliable, TypeOK, NEW t \in [Paths -> State], Undoes(log, pkg, t),
           ReplayRestore \/ ReplayDelete
    PROVE  /\ log[j].dst \in Paths
           /\ \A d \in Paths : d # log[j].dst => file'[d] = file[d]
           /\ ok' = 1 => ok = 1 /\ file'[log[j].dst] = t[log[j].dst]
           /\ ReplayReliable => ok' = ok
<1>. DEFINE d == log[j].dst
<1>1. LineLeft
  BY DEF ReplayRestore, ReplayDelete
<1>2. d \in Paths /\ j \in DOMAIN log /\ file \in [Paths -> State]
  BY <1>1, LineInRange DEF LineLeft, TypeOK, DiskType, LocalsType
<1>3. CASE ReplayRestore
  <2>1. t[d] # Absent /\ backup[pkg][BackupOf[d]] = t[d]
    BY <1>2, <1>3 DEF Undoes, ReplayRestore
  <2>2. PICK r \in CopyOutcomes("restore", backup[pkg][BackupOf[d]], file[d]) :
           /\ file' = [file EXCEPT ![d] = r.is]
           /\ ok' = IF r.res = "ok" THEN ok ELSE 0
    BY <1>3 DEF ReplayRestore
  <2>3. r.res = "ok" => r.is = t[d]
    BY <2>1, <2>2 DEF CopyOutcomes, Unflushed, LogsReliable
  <2>4. ReplayReliable => r.res = "ok"
    BY <2>1, <2>2 DEF CopyOutcomes, Unflushed, LogsReliable, ReplayReliable
  <2>. QED  BY <1>2, <2>2, <2>3, <2>4
<1>4. CASE ReplayDelete
  <2>1. t[d] = Absent
    BY <1>2, <1>4 DEF Undoes, ReplayDelete
  <2>2. PICK removed \in Outcomes("restore") :
           /\ file' = IF removed = "ok" THEN [file EXCEPT ![d] = Absent] ELSE file
           /\ ok' = IF removed = "ok" \/ file[d] = Absent THEN ok ELSE 0
    BY <1>4 DEF ReplayDelete
  <2>3. ReplayReliable => removed = "ok"
    BY <2>2 DEF Outcomes, ReplayReliable
  <2>. QED  BY <1>2, <2>1, <2>2, <2>3
<1>. QED  BY <1>3, <1>4

\* The files the lines left name are all that a replay has still to put back.
LEMMA LinesLeftCover ==
    ASSUME LogsReliable, TypeOK, NEW t \in [Paths -> State], Undoes(log, pkg, t),
           \A d \in Paths : file[d] # t[d] => \E k \in j .. Len(log) : log[k].dst = d,
           ReplayRestore \/ ReplayDelete, ok' = 1
    PROVE  \A d \in Paths : file'[d] # t[d] => \E k \in j' .. Len(log') : log'[k].dst = d
<1>1. j' = j + 1 /\ log' = log /\ j \in Nat /\ Len(log) \in Nat
  BY DEF ReplayRestore, ReplayDelete, NextLine, TypeOK, LocalsType
<1>. SUFFICES ASSUME NEW d \in Paths, file'[d] # t[d]
              PROVE  \E k \in j + 1 .. Len(log) : log[k].dst = d
  BY <1>1
<1>2. d # log[j].dst /\ file[d] # t[d]
  BY LinePutsBack
<1>3. PICK k \in j .. Len(log) : log[k].dst = d
  BY <1>2
<1>. QED  BY <1>1, <1>2, <1>3

\* What was undoable stays so when the disk has not changed.
LEMMA RecoverableKept ==
    ASSUME Recoverable, UNCHANGED <<vars, target, start, txid, changed>>,
           phase' \in After => phase \in After,
           phase' # "rolling",
           rolledBack' = 1 => rolledBack = 1 \/ file = start
    PROVE  Recoverable'
<1>1. UNCHANGED <<file, backup, archive>>
  BY DEF vars, disk
<1>2. Restores(archive[target.id][txid], target.id) =>
         Restores(archive[target.id][txid], target.id)'
  BY <1>1 DEF Restores, Undoes, Covers, Named
<1>. QED  BY <1>1, <1>2 DEF Recoverable

LEMMA ApplyInvInit == AInit => ApplyInv
<1>1. AInit => ApplyType /\ JournalInv
  BY ApplyInit, JournalInit DEF AInit
<1>. QED  BY <1>1 DEF AInit, Init, ApplyInv, HandedOut, Recoverable, After

LEMMA ApplyInvStep ==
    ASSUME LogsReliable, DistinctBackups, ApplyInv, [ANext]_avars
    PROVE  ApplyInv'
<1>1. ApplyType' /\ [Next]_vars
  BY ApplyTypeStep, InstallerStep DEF ApplyInv
<1>2. JournalInv' /\ HandedOut'
  BY <1>1, JournalNext, HandedOutStep DEF ApplyInv, ApplyType
<1>3. TypeOK /\ start \in [Paths -> State]
  BY DEF ApplyInv, ApplyType, ATypeOK
<1>. SUFFICES Recoverable'
  BY <1>1, <1>2 DEF ApplyInv
<1>. USE DEF After, Enter, result
<1>4. ASSUME VerifyPasses \/ VerifyFails \/ LogFails \/ CheckDependencies \/ Configure \/ Build
             \/ WarningGate \/ Tests \/ Artifacts \/ Documentation \/ Certify \/ Finish
      PROVE  Recoverable'
  <2>1. /\ UNCHANGED <<vars, target, start, txid, changed, rolledBack>>
        /\ phase' \in After => phase \in After
        /\ phase' # "rolling"
    BY <1>4 DEF VerifyPasses, VerifyFails, LogFails, CheckDependencies, Configure, Build,
                WarningGate, Tests, Artifacts, Documentation, Certify, Finish, Command
  <2>. QED  BY <2>1, RecoverableKept DEF ApplyInv
<1>5. ASSUME NoRollback PROVE Recoverable'
  <2>1. /\ UNCHANGED <<vars, target, start, txid, changed>>
        /\ phase = "rollback" /\ txid = 0 /\ phase' = "done"
    BY <1>5 DEF NoRollback
  <2>2. file = start
    BY <2>1 DEF ApplyInv, Recoverable
  <2>. QED  BY <2>1, <2>2, RecoverableKept DEF ApplyInv
<1>6. ASSUME Exit \/ Die \/ (\E m \in Manifests : Apply(m)) PROVE Recoverable'
  BY <1>6 DEF Exit, Die, Apply, FreshResult, Recoverable
<1>7. ASSUME CallInstall PROVE Recoverable'
  BY <1>7 DEF CallInstall, ApplyInv, ApplyType, Results, Fresh, Early, Recoverable
<1>8. ASSUME Operator PROVE Recoverable'
  BY <1>8 DEF Operator, ApplyInv, ApplyType, Results, Recoverable
<1>9. ASSUME RunInstall PROVE Recoverable'
  <2>1. /\ phase = "installing" /\ op = "install" /\ before = start /\ pkg = target.id
        /\ rolledBack' = 0 /\ UNCHANGED <<target, start>>
    BY <1>9 DEF RunInstall, ApplyInv, ApplyType, Running, Results
  <2>2. CASE pc = "record" /\ ok = 1
    <3>1. UNCHANGED <<file, backup, archive>>
      BY <1>9, <2>1, <2>2, InstallRuns DEF RunInstall
    <3>2. /\ changed' = installed /\ phase' = "configure"
          /\ txid' = IF installed > 0 THEN j ELSE 0
      BY <1>9, <2>2 DEF RunInstall
    <3>3. CASE installed = 0
      BY <2>1, <2>2, <3>1, <3>2, <3>3 DEF ApplyInv, ApplyType, Outcome, Recoverable
    <3>4. CASE installed # 0
      <4>1. installed > 0 /\ j # 0
        BY <1>3, <2>2, <3>4, ConstantsAssumption
        DEF ApplyInv, ApplyType, Outcome, TypeOK, LocalsType
      <4>2. /\ archive[pkg][j] = tx[pkg] /\ tx[pkg] # NoLog
            /\ pending[pkg] = NoLog /\ unfinished = "install"
        BY <2>2, <4>1 DEF ApplyInv, HandedOut
      <4>3. Restores(archive[pkg][j], pkg)
        BY <2>1, <4>2 DEF ApplyInv, JournalInv, JournalCovers, LastLog, Restores
      <4>4. Restores(archive[target.id][txid], target.id)'
        BY <2>1, <3>1, <3>2, <4>1, <4>3 DEF Restores, Undoes, Covers, Named
      <4>. QED  BY <2>1, <3>2, <4>1, <4>4 DEF Recoverable
    <3>. QED  BY <3>3, <3>4
  <2>3. CASE ~(pc = "record" /\ ok = 1)
    <3>1. phase' \in {"installing", "done"}
      BY <1>9, <2>1, <2>3 DEF RunInstall
    <3>. QED  BY <2>1, <3>1 DEF Recoverable
  <2>. QED  BY <2>2, <2>3
<1>10. ASSUME CallRollback PROVE Recoverable'
  <2>1. /\ phase = "rollback" /\ txid # 0 /\ phase' = "rolling" /\ rolledBack' = 0
        /\ log' = archive[target.id][txid] /\ pkg' = target.id /\ j' = 1
        /\ UNCHANGED <<disk, target, start, txid, changed>>
    BY <1>10 DEF CallRollback, RollbackTransaction, StartReplay, ApplyInv, ApplyType, Results
  <2>2. changed > 0 /\ Restores(log', pkg')
    BY <2>1 DEF ApplyInv, Recoverable
  <2>3. Undoes(log, pkg, start)'
    BY <2>1, <2>2 DEF Restores, Undoes, disk
  <2>4. DOMAIN log' = 1 .. Len(log')
    BY <1>1 DEF ApplyType, ATypeOK, TypeOK, LocalsType
  <2>5. \A d \in Paths : file'[d] # start'[d] => \E k \in j' .. Len(log') : log'[k].dst = d
    BY <2>1, <2>2, <2>4 DEF Restores, Covers, Named, disk
  <2>. QED  BY <2>1, <2>2, <2>3, <2>5 DEF Recoverable
<1>11. ASSUME RunRollback PROVE Recoverable'
  <2>1. /\ phase = "rolling" /\ pc = "replay" /\ op = "rollback_tx" /\ ReplayStep
        /\ changed > 0 /\ Undoes(log, pkg, start) /\ rolledBack = 0
        /\ UNCHANGED <<target, start, changed>>
    BY <1>11 DEF RunRollback, ApplyInv, ApplyType, Running, Results, Recoverable
  <2>2. CASE pc' = "idle"
    <3>1. /\ phase' = "done" /\ (rolledBack' = 1 => ok = 1)
          /\ ~LineLeft /\ file' = file
      BY <1>11, <2>1, <2>2, RollbackRuns DEF RunRollback, NothingChanged
    <3>2. j .. Len(log) = {}
      BY <1>3, <3>1 DEF LineLeft, TypeOK, LocalsType
    <3>3. ok = 1 => \A d \in Paths : file[d] = start[d]
      BY <2>1, <3>2 DEF ApplyInv, Recoverable
    <3>4. ok = 1 => file = start
      BY <1>3, <3>3 DEF TypeOK, DiskType
    <3>. QED  BY <2>1, <3>1, <3>4 DEF Recoverable
  <2>3. CASE pc' # "idle"
    <3>1. /\ phase' = "rolling" /\ rolledBack' = 0 /\ UNCHANGED <<op, pkg, log>>
          /\ ReplayRestore \/ ReplayDelete
      BY <1>11, <2>1, <2>3, RollbackRuns DEF RunRollback
    <3>2. Undoes(log, pkg, start)'
      BY <2>1, <3>1 DEF Undoes, ReplayRestore, ReplayDelete
    <3>3. ASSUME ok' = 1
          PROVE  \A d \in Paths : file'[d] # start'[d] =>
                    \E k \in j' .. Len(log') : log'[k].dst = d
      <4>1. ok = 1
        BY <1>3, <2>1, <3>1, <3>3, LinePutsBack
      <4>2. \A d \in Paths : file[d] # start[d] => \E k \in j .. Len(log) : log[k].dst = d
        BY <2>1, <4>1 DEF ApplyInv, Recoverable
      <4>. QED  BY <1>3, <2>1, <3>1, <3>3, <4>2, LinesLeftCover
    <3>. QED  BY <2>1, <3>1, <3>2, <3>3 DEF Recoverable
  <2>. QED  BY <2>2, <2>3
<1>12. ASSUME UNCHANGED avars PROVE Recoverable'
  <2>1. /\ UNCHANGED <<vars, target, start, txid, changed, rolledBack, phase>>
        /\ UNCHANGED <<file, backup, archive, log, pkg, j, ok>>
    BY <1>12 DEF avars, vars, locals, disk
  <2>2. Recoverable' = Recoverable
    BY <2>1 DEF Recoverable, Restores, Undoes, Covers, Named
  <2>. QED  BY <2>2 DEF ApplyInv
<1>. QED
  BY <1>4, <1>5, <1>6, <1>7, <1>8, <1>9, <1>10, <1>11, <1>12 DEF ANext, ApplyStep

\* An Apply that says it rolled back has put the tree back that it found, also
\* when any file operation but the journal's own writes may fail, those of the
\* rollback included.
THEOREM RollbackIsTrue ==
    ASSUME LogsReliable, DistinctBackups
    PROVE  ASpec => []RollbackIsTold
<1>1. ApplyInv => RollbackIsTold
  BY DEF ApplyInv, Recoverable, RollbackIsTold
<1>. QED  BY <1>1, ApplyInvInit, ApplyInvStep, PTL DEF ASpec

-----------------------------------------------------------------------------
(* A failed Apply, and what a certificate says *)

\* The phases between an install that succeeded and the report.
Certifying == After \ {"rollback"}

InPlace(fs) == \A k \in DOMAIN fs : file[fs[k].dst] = fs[k].new

\* An Apply that fails has put back the tree it found; one that is to be
\* certified has every mapping in place.
Restored ==
    /\ phase = "rolling" => ok = 1
    /\ phase = "certify" => success = 1
    /\ phase \in {"done", "returned"} /\ success = 0 => file = start
    /\ phase \in {"done", "returned"} /\ success = 1 => generated = 1
    /\ phase \in Certifying => InPlace(target.files)

\* The certificates nobody has disturbed describe the tree t.
Certified(t) ==
    \A p \in Packages \ disturbed :
       report[p].status = "CERTIFIED" =>
          \A k \in DOMAIN report[p].files : t[report[p].files[k].dst] = report[p].files[k].new

\* A certificate describes the tree Apply found until it writes a new one, and
\* what is disturbed is known while a call of the operator or an Apply runs.
Reported ==
    /\ phase = "idle" /\ pc # "idle" => disturbed = Packages
    /\ phase # "idle" => Packages \ {target.id} \subseteq disturbed
    /\ Certified(IF generated = 1 THEN file ELSE start)

ReportInv == ApplyInv /\ PlacedInv /\ Restored /\ Reported

LEMMA ReportInit == AInit => ReportInv
<1>1. AInit => ApplyInv /\ PlacedInv
  BY ApplyInvInit, PlacedInit DEF AInit
<1>2. AInit => Restored /\ Reported
  BY DEF AInit, Init, Restored, Reported, Certified, Certifying, After
<1>. QED  BY <1>1, <1>2 DEF ReportInv

LEMMA RestoredStep ==
    ASSUME LogsReliable, ReplayReliable, ReportInv, ApplyInv', [ANext]_avars
    PROVE  Restored'
<1>1. ApplyType /\ ApplyType' /\ TypeOK /\ start \in [Paths -> State] /\ Recoverable /\ Restored
  BY ApplyTypeStep DEF ReportInv, ApplyInv, ApplyType, ATypeOK
<1>2. {success, generated} \subseteq {0, 1} /\ {success', generated'} \subseteq {0, 1}
  BY <1>1 DEF ApplyType, ATypeOK
<1>. USE DEF Certifying, After, Enter, result
<1>3. ASSUME VerifyPasses \/ VerifyFails \/ LogFails \/ CheckDependencies PROVE Restored'
  <2>1. /\ phase \in Early /\ phase' \in Early \cup {"done"}
        /\ UNCHANGED <<vars, start>> /\ success' = success
    BY <1>3 DEF VerifyPasses, VerifyFails, LogFails, CheckDependencies, Early
  <2>2. file = start /\ success = 0
    BY <1>1, <2>1 DEF ApplyType, Running, Results, Early
  <2>. QED  BY <2>1, <2>2 DEF Restored, Early, vars, disk
<1>4. ASSUME Configure \/ Build \/ WarningGate \/ Tests \/ Artifacts \/ Documentation
      PROVE  Restored'
  <2>1. /\ phase \in Certifying /\ phase' \in Certifying \cup {"rollback"}
        /\ phase' = "certify" => success' = 1
        /\ UNCHANGED <<vars, target>>
    BY <1>4 DEF Configure, Build, WarningGate, Tests, Artifacts, Documentation, Command
  <2>. QED  BY <1>1, <2>1 DEF Restored, InPlace, vars, disk
<1>5. ASSUME Certify PROVE Restored'
  <2>1. /\ phase = "certify"
        /\ \/ phase' = "done" /\ success' = success /\ generated' = 1
           \/ phase' = "rollback"
    BY <1>5 DEF Certify, WriteReport
  <2>2. success = 1
    BY <1>1, <2>1 DEF Restored
  <2>. QED  BY <2>1, <2>2 DEF Restored
<1>6. ASSUME NoRollback PROVE Restored'
  <2>1. /\ phase = "rollback" /\ phase' = "done" /\ txid = 0 /\ success' = success
        /\ UNCHANGED <<vars, start>>
    BY <1>6 DEF NoRollback
  <2>2. file = start /\ success = 0
    BY <1>1, <2>1 DEF Recoverable, ApplyType, Results
  <2>. QED  BY <2>1, <2>2 DEF Restored, vars, disk
<1>7. ASSUME Finish PROVE Restored'
  <2>1. /\ phase = "done" /\ phase' = "returned" /\ success' = success
        /\ UNCHANGED <<vars, start>> /\ (generated = 1 => generated' = 1)
    BY <1>7 DEF Finish, WriteReport
  <2>. QED  BY <1>1, <2>1 DEF Restored, vars, disk
<1>8. ASSUME Exit \/ Die \/ Operator \/ (\E m \in Manifests : Apply(m)) \/ CallInstall
      PROVE  Restored'
  <2>1. phase' \in {"idle", "verify", "installing"}
    BY <1>8 DEF Exit, Die, Operator, Apply, CallInstall
  <2>. QED  BY <2>1 DEF Restored
<1>9. ASSUME RunInstall PROVE Restored'
  <2>1. /\ phase = "installing" /\ op = "install" /\ before = start /\ files = target.files
        /\ success' = 0 /\ UNCHANGED <<target, start>>
    BY <1>1, <1>9 DEF RunInstall, ApplyType, Running, Results, Fresh
  <2>2. CASE pc = "record"
    <3>1. file' = file /\ phase' = IF ok = 1 THEN "configure" ELSE "done"
      BY <1>9, <2>1, <2>2, InstallRuns DEF RunInstall
    <3>2. IF ok = 1 THEN InPlace(files) ELSE file = start
      BY <2>1, <2>2 DEF ReportInv, PlacedInv, Placed, AllOrNothing, InPlace
    <3>. QED  BY <2>1, <3>1, <3>2 DEF Restored, InPlace
  <2>3. CASE pc # "record"
    <3>1. phase' = "installing"
      BY <1>9, <2>3 DEF RunInstall
    <3>. QED  BY <3>1 DEF Restored
  <2>. QED  BY <2>2, <2>3
<1>10. ASSUME CallRollback PROVE Restored'
  <2>1. phase' = "rolling" /\ ok' = 1
    BY <1>10 DEF CallRollback, RollbackTransaction, StartReplay
  <2>. QED  BY <2>1 DEF Restored
<1>11. ASSUME RunRollback PROVE Restored'
  <2>1. /\ phase = "rolling" /\ pc = "replay" /\ op = "rollback_tx" /\ ReplayStep /\ ok = 1
        /\ Undoes(log, pkg, start) /\ success' = 0 /\ start' = start
    BY <1>1, <1>11 DEF RunRollback, ApplyType, Running, Results, Recoverable, Restored
  <2>2. CASE pc' = "idle"
    <3>1. phase' = "done" /\ rolledBack' = 1
      BY <1>11, <2>1, <2>2 DEF RunRollback
    <3>2. file' = start'
      BY <3>1 DEF ApplyInv, Recoverable
    <3>. QED  BY <2>1, <3>1, <3>2 DEF Restored
  <2>3. CASE pc' # "idle"
    <3>1. phase' = "rolling" /\ (ReplayRestore \/ ReplayDelete)
      BY <1>11, <2>1, <2>3, RollbackRuns DEF RunRollback
    <3>2. ok' = 1
      BY <1>1, <2>1, <3>1, LinePutsBack
    <3>. QED  BY <3>1, <3>2 DEF Restored
  <2>. QED  BY <2>2, <2>3
<1>12. ASSUME UNCHANGED avars PROVE Restored'
  BY <1>1, <1>12 DEF avars, vars, locals, disk, Restored, InPlace
<1>. QED
  BY <1>3, <1>4, <1>5, <1>6, <1>7, <1>8, <1>9, <1>10, <1>11, <1>12 DEF ANext, ApplyStep

\* A call of the operator that is under way is not idle.
LEMMA CallRuns ==
    ASSUME InstallStep \/ ReplayStep \/ Crash
    PROVE  pc # "idle"
BY DEF InstallStep, ReplayStep, MkdirFails, SkipUnchanged, NoBackup, BackUp, Journal,
       CopyPayload, MappingsDone, NoOp, RemoveCommitted, RenamePending, ArchiveLog,
       AppendIndex, WriteCounter, StartUndo, MarkRolledBack, Record, ReplayRestore,
       ReplayDelete, ReplayDone, Crash, AtMapping

LEMMA ReportedStep ==
    ASSUME ReportInv, [ANext]_avars
    PROVE  Reported'
<1>1. ApplyType /\ ApplyType' /\ Restored /\ Reported
  BY ApplyTypeStep DEF ReportInv, ApplyInv
<1>2. {success, generated} \subseteq {0, 1} /\ disturbed \subseteq Packages
  BY <1>1 DEF ApplyType, ATypeOK
<1>. USE DEF Enter, result
<1>3. ASSUME phase # "idle", phase' # "idle", generated = 0, generated' = 0,
             UNCHANGED <<report, target, start, disturbed>>
      PROVE  Reported'
  BY <1>1, <1>3 DEF Reported, Certified
<1>4. ASSUME \/ VerifyPasses \/ VerifyFails \/ LogFails \/ CheckDependencies \/ Configure \/ Build
             \/ WarningGate \/ Tests \/ Artifacts \/ Documentation \/ NoRollback \/ CallInstall
             \/ CallRollback \/ RunInstall \/ RunRollback
      PROVE  Reported'
  <2>1. /\ phase \notin {"idle", "done", "returned"} /\ phase' # "idle"
        /\ UNCHANGED <<report, target, start, disturbed, generated>>
    BY <1>4 DEF VerifyPasses, VerifyFails, LogFails, CheckDependencies, Configure, Build,
                WarningGate, Tests, Artifacts, Documentation, NoRollback, CallInstall,
                CallRollback, RunInstall, RunRollback, Command
  <2>2. generated = 0
    BY <1>1, <2>1 DEF ApplyType, Results
  <2>. QED  BY <1>3, <2>1, <2>2
<1>5. ASSUME phase # "idle", phase' # "idle", UNCHANGED <<vars, target, start>>, WriteReport,
             Verdict = "CERTIFIED" => InPlace(target.files)
      PROVE  Reported'
  <2>1. /\ target \in Manifests /\ Packages \ {target.id} \subseteq disturbed
        /\ report \in [Packages -> [status : Status, files : Seq(Mapping)]]
    BY <1>1, <1>5 DEF ApplyType, Running, Reported
  <2>2. /\ report' = [report EXCEPT ![target.id] = [status |-> Verdict, files |-> target.files]]
        /\ generated' = 1 /\ disturbed' = disturbed \ {target.id}
    BY <1>5 DEF WriteReport
  <2>3. ASSUME NEW p \in Packages \ disturbed', report'[p].status = "CERTIFIED",
               NEW k \in DOMAIN report'[p].files
        PROVE  file'[report'[p].files[k].dst] = report'[p].files[k].new
    <3>1. p = target.id
      BY <2>1, <2>2
    <3>2. report'[p] = [status |-> Verdict, files |-> target.files]
      BY <2>1, <2>2, <3>1
    <3>. QED  BY <1>5, <2>3, <3>2 DEF InPlace, vars, disk
  <2>4. Certified(file)'
    BY <2>3 DEF Certified
  <2>. QED  BY <1>5, <2>1, <2>2, <2>4 DEF Reported
<1>6. ASSUME phase # "idle", phase' # "idle", UNCHANGED <<vars, target, start>>, ReportFails,
             generated = 0
      PROVE  Reported'
  <2>1. /\ target \in Manifests /\ report \in [Packages -> [status : Status, files : Seq(Mapping)]]
        /\ Packages \ {target.id} \subseteq disturbed /\ Certified(start)
    BY <1>1, <1>6 DEF ApplyType, Running, Reported
  <2>2. /\ report' \in {report, [report EXCEPT ![target.id] = [status |-> "blank", files |-> <<>>]]}
        /\ UNCHANGED <<generated, disturbed>>
    BY <1>6 DEF ReportFails
  <2>3. \A p \in Packages : report'[p] = report[p] \/ report'[p].status = "blank"
    BY <2>1, <2>2
  <2>4. Certified(start)'
    BY <1>6, <2>1, <2>2, <2>3 DEF Certified
  <2>. QED  BY <1>6, <2>1, <2>2, <2>4 DEF Reported
<1>7. ASSUME Certify PROVE Reported'
  <2>1. phase = "certify" /\ phase' # "idle" /\ UNCHANGED <<vars, target, start>>
    BY <1>7 DEF Certify
  <2>2. generated = 0 /\ InPlace(target.files)
    BY <1>1, <2>1 DEF ApplyType, Results, Restored, Certifying, After
  <2>. QED  BY <1>5, <1>6, <1>7, <2>1, <2>2 DEF Certify
<1>8. ASSUME Finish PROVE Reported'
  <2>1. phase = "done" /\ phase' = "returned" /\ UNCHANGED <<vars, target, start>>
    BY <1>8 DEF Finish
  <2>2. CASE generated = 0 /\ logged = 1
    <3>1. success = 0
      BY <1>1, <1>2, <2>1, <2>2 DEF Restored
    <3>2. Verdict # "CERTIFIED"
      BY <3>1 DEF Verdict
    <3>. QED  BY <1>5, <1>6, <1>8, <2>1, <2>2, <3>2 DEF Finish
  <2>3. CASE ~(generated = 0 /\ logged = 1)
    <3>1. UNCHANGED <<report, generated, disturbed>>
      BY <1>8, <2>3 DEF Finish
    <3>. QED  BY <1>1, <2>1, <3>1 DEF Reported, Certified, vars, disk
  <2>. QED  BY <2>2, <2>3
<1>9. ASSUME Exit PROVE Reported'
  <2>1. /\ phase = "returned" /\ phase' = "idle" /\ start' = file /\ generated' = 0
        /\ UNCHANGED <<vars, report, disturbed>>
    BY <1>9 DEF Exit, FreshResult
  <2>2. pc = "idle" /\ Certified(file)
    <3>1. generated = 0 => file = start
      BY <1>1, <1>2, <2>1 DEF Restored
    <3>. QED  BY <1>1, <1>2, <2>1, <3>1 DEF ApplyType, Running, Reported
  <2>3. Certified(start)'
    BY <2>1, <2>2 DEF Certified
  <2>. QED  BY <2>1, <2>2, <2>3 DEF Reported, vars, locals
<1>10. ASSUME NEW m \in Manifests, Apply(m) PROVE Reported'
  <2>1. /\ phase = "idle" /\ phase' = "verify" /\ target' = m /\ start' = file /\ generated' = 0
        /\ disturbed' = disturbed \cup (Packages \ {m.id}) /\ report' = report
    BY <1>10 DEF Apply, FreshResult
  <2>2. start = file /\ generated = 0
    BY <1>1, <2>1 DEF ApplyType, Running, Results
  <2>3. Certified(start)'
    BY <1>1, <2>1, <2>2 DEF Reported, Certified
  <2>. QED  BY <2>1, <2>3 DEF Reported
<1>11. ASSUME disturbed' = Packages, phase' = "idle" PROVE Reported'
  BY <1>11 DEF Reported, Certified
<1>12. ASSUME Operator PROVE Reported'
  <2>1. CASE Call /\ disturbed' = Packages
    BY <1>11, <1>12, <2>1 DEF Operator
  <2>2. CASE (InstallStep \/ ReplayStep \/ Crash) /\ UNCHANGED disturbed
    <3>1. phase = "idle" /\ phase' = "idle" /\ pc # "idle"
      BY <1>12, <2>2, CallRuns DEF Operator
    <3>2. disturbed' = Packages
      BY <1>1, <2>2, <3>1 DEF Reported
    <3>. QED  BY <1>11, <3>1, <3>2
  <2>. QED  BY <1>12, <2>1, <2>2 DEF Operator
<1>13. ASSUME Die PROVE Reported'
  BY <1>11, <1>13 DEF Die
<1>14. ASSUME UNCHANGED avars PROVE Reported'
  BY <1>1, <1>14 DEF avars, vars, locals, disk, Reported, Certified
<1>. QED
  BY <1>4, <1>7, <1>8, <1>9, <1>10, <1>12, <1>13, <1>14 DEF ANext, ApplyStep

LEMMA ReportStep ==
    ASSUME LogsReliable, ReplayReliable, LateReliable, DistinctBackups, ReportInv, [ANext]_avars
    PROVE  ReportInv'
<1>1. ApplyInv' /\ PlacedInv'
  BY ApplyInvStep, InstallerStep, PlacedStep DEF ReportInv, ApplyInv
<1>. QED  BY <1>1, RestoredStep, ReportedStep DEF ReportInv

LEMMA ReportSays ==
    ASSUME ReportInv
    PROVE  FailedApplyRestores /\ RollbackIsTold /\ CertificateHolds
<1>1. FailedApplyRestores
  BY DEF ReportInv, Restored, FailedApplyRestores
<1>2. RollbackIsTold
  BY DEF ReportInv, ApplyInv, Recoverable, RollbackIsTold
<1>3. phase = "idle" => generated # 1 /\ start = file
  BY DEF ReportInv, ApplyInv, ApplyType, Running, Results
<1>4. CertificateHolds
  BY <1>3 DEF ReportInv, Reported, Certified, CertificateHolds
<1>. QED  BY <1>1, <1>2, <1>4

\* An Apply that fails, at whatever phase, its install and its report included,
\* returns with the tree it found, provided that the operations of the commit
\* and of the rollback do not fail.
THEOREM FailedApplyRestoresTree ==
    ASSUME LogsReliable, ReplayReliable, LateReliable, DistinctBackups
    PROVE  ASpec => []FailedApplyRestores
BY ReportSays, ReportInit, ReportStep, PTL DEF ASpec

\* ... and a certificate stands for the tree for as long as nobody but failed
\* applies of the same package has run.
THEOREM CertificateIsTrue ==
    ASSUME LogsReliable, ReplayReliable, LateReliable, DistinctBackups
    PROVE  ASpec => []CertificateHolds
BY ReportSays, ReportInit, ReportStep, PTL DEF ASpec

-----------------------------------------------------------------------------
(* Discovery *)

Candidate == [dir : Manifests, time : Times]

\* A candidate comes after another by mtime, then by path.
Newer(c, d) == c.time > d.time \/ (c.time = d.time /\ PathRank[c.dir] > PathRank[d.dir])

\* The last of a set of candidates.
LastOf(c, seen) ==
    IF seen = {} THEN c = NoCandidate
    ELSE c \in seen /\ \A d \in seen \ {c} : Newer(c, d)

ScanInv ==
    /\ unread \subseteq Manifests
    /\ candidates \subseteq Candidate
    /\ \A c \in candidates : c.dir \notin unread
    /\ LastOf(selected, candidates)
    /\ ~scanning => candidates = {}

\* The fields of a candidate, which is never the absent one.
LEMMA CandidateType ==
    ASSUME NEW c \in Candidate
    PROVE  /\ c.dir \in Manifests /\ c.time \in Nat /\ PathRank[c.dir] \in Nat
           /\ c # NoCandidate
<1>1. c.dir \in Manifests /\ c.time \in Times /\ Times \subseteq Nat
  BY UpdateAssumption DEF Candidate
<1>2. PathRank[c.dir] \in Nat
  BY <1>1, UpdateAssumption
<1>3. c # NoCandidate
  <2>1. c.dir.files # <<>>
    BY <1>1, ConstantsAssumption
  <2>2. NoCandidate.dir.files = <<>>
    BY DEF NoCandidate, NoTarget
  <2>. QED  BY <2>1, <2>2
<1>. QED  BY <1>1, <1>2, <1>3

\* Looking at one more directory keeps the last of those seen.
LEMMA LastKept ==
    ASSUME NEW seen \in SUBSET Candidate, NEW s, LastOf(s, seen),
           NEW c \in Candidate, \A d \in seen : d.dir # c.dir
    PROVE  LastOf(IF Better(c, s) THEN c ELSE s, seen \cup {c})
<1>. DEFINE new == IF Better(c, s) THEN c ELSE s
<1>1. CASE seen = {}
  <2>1. s = NoCandidate
    BY <1>1 DEF LastOf
  <2>2. new = c
    BY <2>1 DEF Better
  <2>. QED  BY <1>1, <2>2 DEF LastOf
<1>2. CASE seen # {}
  <2>1. s \in seen /\ s \in Candidate /\ s # NoCandidate /\ s.dir # c.dir
    BY <1>2, CandidateType DEF LastOf
  <2>2. /\ c.time \in Nat /\ s.time \in Nat /\ PathRank[c.dir] \in Nat /\ PathRank[s.dir] \in Nat
        /\ PathRank[c.dir] # PathRank[s.dir]
    BY <2>1, CandidateType, UpdateAssumption
  <2>3. CASE Better(c, s)
    <3>1. new = c /\ Newer(c, s)
      BY <2>1, <2>3 DEF Better, Newer
    <3>2. ASSUME NEW d \in seen PROVE Newer(c, d)
      <4>1. CASE d = s
        BY <3>1, <4>1
      <4>2. CASE d # s
        <5>1. Newer(s, d)
          BY <1>2, <4>2 DEF LastOf
        <5>2. d.time \in Nat /\ PathRank[d.dir] \in Nat
          BY CandidateType
        <5>. QED  BY <2>2, <3>1, <5>1, <5>2 DEF Newer
      <4>. QED  BY <4>1, <4>2
    <3>. QED  BY <3>1, <3>2 DEF LastOf
  <2>4. CASE ~Better(c, s)
    <3>1. new = s /\ Newer(s, c)
      BY <2>1, <2>2, <2>4 DEF Better, Newer
    <3>2. ASSUME NEW d \in seen \ {s} PROVE Newer(s, d)
      BY <1>2, <3>2 DEF LastOf
    <3>. QED  BY <2>1, <3>1, <3>2 DEF LastOf
  <2>. QED  BY <2>3, <2>4
<1>. QED  BY <1>1, <1>2

\* No scan has begun.
LEMMA ScanInit == UpdateInit => ScanInv
BY DEF UpdateInit, ScanInv, LastOf

\* Only the scan itself changes what it has found.
LEMMA ScanStep == ScanInv /\ [UpdateNext]_uvars => ScanInv'
<1>. SUFFICES ASSUME ScanInv, [UpdateNext]_uvars PROVE ScanInv'
  OBVIOUS
<1>1. ASSUME Discover PROVE ScanInv'
  BY <1>1 DEF Discover, ScanInv, LastOf
<1>2. ASSUME NEW m \in Manifests, Consider(m) PROVE ScanInv'
  <2>1. scanning /\ m \in unread /\ unread' = unread \ {m} /\ scanning' = scanning
    BY <1>2 DEF Consider
  <2>2. CASE UNCHANGED <<candidates, selected>>
    BY <2>1, <2>2 DEF ScanInv, LastOf
  <2>3. ASSUME NEW t \in Times,
               candidates' = candidates \cup {[dir |-> m, time |-> t]},
               selected' = IF Better([dir |-> m, time |-> t], selected)
                           THEN [dir |-> m, time |-> t] ELSE selected
        PROVE  ScanInv'
    <3>. DEFINE c == [dir |-> m, time |-> t]
    <3>1. c \in Candidate /\ c.dir = m
      BY DEF Candidate
    <3>2. \A d \in candidates : d.dir # c.dir
      BY <2>1, <3>1 DEF ScanInv
    <3>. HIDE DEF c
    <3>3. candidates' = candidates \cup {c} /\ selected' = IF Better(c, selected) THEN c ELSE selected
      BY <2>3 DEF c
    <3>4. LastOf(IF Better(c, selected) THEN c ELSE selected, candidates \cup {c})
      BY <3>1, <3>2, LastKept DEF ScanInv
    <3>5. LastOf(selected', candidates')
      BY <3>3, <3>4
    <3>. QED  BY <2>1, <3>1, <3>3, <3>5 DEF ScanInv
  <2>. QED  BY <1>2, <2>2, <2>3 DEF Consider
<1>3. ASSUME EndScan PROVE ScanInv'
  BY <1>3 DEF EndScan, ScanInv, LastOf
<1>4. ASSUME UNCHANGED scan PROVE ScanInv'
  BY <1>4 DEF scan, ScanInv, LastOf
<1>. QED
  BY <1>1, <1>2, <1>3, <1>4
     DEF UpdateNext, ApplySelected, NothingFound, ApplyOn, Replace, OperatorOn, uvars

\* ApplyNext applies the newest pending directory, the last by path among those
\* of the same time, in whatever order the directories are read.
THEOREM NewestIsApplied == UpdateSpec => []NewestIsChosen
<1>1. ScanInv => NewestIsChosen
  <2>. SUFFICES ASSUME ScanInv, candidates # {}, NEW c \in candidates \ {selected}
                PROVE  /\ selected \in candidates
                       /\ \/ c.time < selected.time
                          \/ c.time = selected.time /\ PathRank[c.dir] < PathRank[selected.dir]
    BY DEF ScanInv, LastOf, NewestIsChosen
  <2>1. selected \in candidates /\ Newer(selected, c)
    BY DEF ScanInv, LastOf
  <2>2. /\ c.time \in Nat /\ selected.time \in Nat
        /\ PathRank[c.dir] \in Nat /\ PathRank[selected.dir] \in Nat
    BY <2>1, CandidateType DEF ScanInv
  <2>. QED  BY <2>1, <2>2 DEF Newer
<1>. QED  BY <1>1, ScanInit, ScanStep, PTL DEF UpdateSpec

-----------------------------------------------------------------------------
(* The self-update *)

\* The phases of an Apply whose log was started and is not complete.
LogOpen == {"dependencies", "install", "installing", "configure", "build", "warning-gate",
            "tests", "qa-repeatability", "documentation"}

LogInv ==
    /\ phase \in LogOpen => target \in Manifests /\ completed[target.id] = "no"
    /\ phase = "verify" => target \in Manifests
    /\ completed \in [Packages -> {"no", "plain", "staged"}]
    /\ \A e \in staged : e \in [by : Packages, tested : BOOLEAN]
    /\ ReplacementTested

\* A step of an Apply that starts no log leaves the target, and does not go back
\* to a phase before the completion line.
LEMMA PhaseStep ==
    ASSUME ApplyStep, phase \notin {"verify", "build", "documentation"}
    PROVE  /\ phase' # "verify"
           /\ phase' \in LogOpen => phase \in LogOpen /\ target' = target
<1>. USE DEF LogOpen, Enter
<1>1. ASSUME CheckDependencies \/ WarningGate \/ Artifacts \/ NoRollback PROVE
         /\ phase' # "verify"
         /\ phase' \in LogOpen => phase \in LogOpen /\ target' = target
  BY <1>1 DEF CheckDependencies, WarningGate, Artifacts, NoRollback
<1>2. ASSUME CallInstall \/ RunInstall \/ CallRollback \/ RunRollback PROVE
         /\ phase' # "verify"
         /\ phase' \in LogOpen => phase \in LogOpen /\ target' = target
  BY <1>2 DEF CallInstall, RunInstall, CallRollback, RunRollback
<1>3. ASSUME Configure \/ Tests PROVE
         /\ phase' # "verify"
         /\ phase' \in LogOpen => phase \in LogOpen /\ target' = target
  BY <1>3 DEF Configure, Tests, Command
<1>4. ASSUME Certify \/ Finish \/ Exit PROVE
         /\ phase' # "verify"
         /\ phase' \in LogOpen => phase \in LogOpen /\ target' = target
  BY <1>4 DEF Certify, Finish, Exit
<1>5. ~(VerifyPasses \/ VerifyFails \/ LogFails \/ Build \/ Documentation)
  BY DEF VerifyPasses, VerifyFails, LogFails, Build, Documentation
<1>. QED  BY <1>1, <1>2, <1>3, <1>4, <1>5 DEF ApplyStep

\* No log and no executable.
LEMMA LogInit == UpdateInit => LogInv
BY DEF UpdateInit, AInit, LogInv, LogOpen, ReplacementTested

\* Every step.
LEMMA LogStep == LogInv /\ ScanInv /\ [UpdateNext]_uvars => LogInv'
<1>. SUFFICES ASSUME LogInv, ScanInv, [UpdateNext]_uvars PROVE LogInv'
  OBVIOUS
<1>0. \A m \in Manifests : m.id \in Packages
  BY ConstantsAssumption
<1>1. ASSUME UNCHANGED <<phase, target, completed, staged>> PROVE LogInv'
  BY <1>1 DEF LogInv, ReplacementTested
<1>2. ASSUME NEW m \in Manifests, Apply(m), UNCHANGED <<completed, staged>> PROVE LogInv'
  BY <1>2 DEF Apply, LogInv, LogOpen, ReplacementTested
<1>3. ASSUME BuildsNext PROVE LogInv'
  <2>1. /\ phase = "build" /\ target' = target
        /\ phase' \in {"warning-gate", "rollback"}
        /\ staged' \in {staged, {[by |-> target.id, tested |-> FALSE]}}
        /\ completed' = completed
    BY <1>3 DEF BuildsNext, Build, Command, Enter, BuiltBy
  <2>2. target \in Manifests /\ completed[target.id] = "no"
    BY <2>1 DEF LogInv, LogOpen
  <2>3. \A e \in staged' : e \in [by : Packages, tested : BOOLEAN]
    <3>1. target.id \in Packages
      BY <1>0, <2>2
    <3>2. [by |-> target.id, tested |-> FALSE] \in [by : Packages, tested : BOOLEAN]
      BY <3>1
    <3>3. CASE staged' = staged
      BY <3>3 DEF LogInv
    <3>4. CASE staged' = {[by |-> target.id, tested |-> FALSE]}
      BY <3>2, <3>4
    <3>. QED  BY <2>1, <3>3, <3>4
  <2>4. ReplacementTested'
    BY <2>1, <2>2 DEF LogInv, ReplacementTested
  <2>. QED  BY <2>1, <2>2, <2>3, <2>4 DEF LogInv
<1>4. ASSUME Build, UNCHANGED <<completed, staged>> PROVE LogInv'
  <2>1. phase = "build" /\ target' = target /\ phase' \in {"warning-gate", "rollback"}
    BY <1>4 DEF Build, Command, Enter
  <2>. QED  BY <1>4, <2>1 DEF LogInv, LogOpen, ReplacementTested
<1>5. ASSUME Completes PROVE LogInv'
  <2>1. phase = "documentation" /\ phase' \in {"certify", "rollback"}
    BY <1>5 DEF Completes, Documentation, Command, Enter
  <2>2. phase' \notin LogOpen /\ phase' # "verify"
    BY <2>1 DEF LogOpen
  <2>3. target \in Manifests /\ target.id \in Packages
    BY <1>0, <2>1 DEF LogInv, LogOpen
  <2>4. CASE phase' = "rollback"
    <3>1. UNCHANGED <<completed, staged>>
      BY <1>5, <2>4 DEF Completes
    <3>. QED  BY <2>2, <3>1 DEF LogInv, ReplacementTested
  <2>5. CASE phase' = "certify"
    <3>1. /\ completed' = [completed EXCEPT ![target.id] =
                              IF target.staging THEN "staged" ELSE "plain"]
          /\ staged' = IF target.staging
                       THEN {[e EXCEPT !.tested = TRUE] : e \in staged} ELSE staged
      BY <1>5, <2>5 DEF Completes
    <3>2. completed' \in [Packages -> {"no", "plain", "staged"}]
      BY <2>3, <3>1 DEF LogInv
    <3>3. CASE target.staging
      <4>1. \A e \in staged' : e \in [by : Packages, tested : BOOLEAN] /\ e.tested
        BY <3>1, <3>3 DEF LogInv
      <4>. QED  BY <2>2, <3>2, <4>1 DEF LogInv, ReplacementTested
    <3>4. CASE ~target.staging
      <4>1. \A p \in Packages : completed'[p] = "staged" => completed[p] = "staged"
        BY <2>3, <3>1, <3>4 DEF LogInv
      <4>2. staged' = staged
        BY <3>1, <3>4
      <4>. QED  BY <2>2, <3>2, <4>1, <4>2 DEF LogInv, ReplacementTested
    <3>. QED  BY <3>3, <3>4
  <2>. QED  BY <2>1, <2>4, <2>5
<1>6. ASSUME ApplyStep, phase \notin {"build", "documentation"},
             completed' \in LogAfter, UNCHANGED staged
      PROVE  LogInv'
  <2>1. CASE phase = "verify"
    <3>1. target \in Manifests /\ target.id \in Packages
      BY <1>0, <2>1 DEF LogInv
    <3>2. phase' \in {"dependencies", "done"} /\ target' = target
      BY <1>6, <2>1
         DEF ApplyStep, VerifyPasses, VerifyFails, LogFails, Enter, CheckDependencies,
             CallInstall, RunInstall, Configure, Build, WarningGate, Tests, Artifacts,
             Documentation, Certify, CallRollback, RunRollback, NoRollback, Finish, Exit
    <3>3. completed' \in {completed, [completed EXCEPT ![target.id] = "no"]}
      BY <1>6, <2>1 DEF LogAfter, Truncated
    <3>4. phase' = "dependencies" => completed' = [completed EXCEPT ![target.id] = "no"]
      BY <1>6, <2>1 DEF LogAfter, Truncated
    <3>5. /\ completed' \in [Packages -> {"no", "plain", "staged"}]
          /\ phase' = "dependencies" => completed'[target.id] = "no"
          /\ \A p \in Packages : completed'[p] = "staged" => completed[p] = "staged"
      BY <3>1, <3>3, <3>4 DEF LogInv
    <3>. QED  BY <1>6, <3>1, <3>2, <3>5 DEF LogInv, LogOpen, ReplacementTested
  <2>2. CASE phase # "verify"
    <3>1. completed' = completed
      BY <1>6, <2>2 DEF LogAfter
    <3>2. /\ phase' # "verify"
          /\ phase' \in LogOpen => phase \in LogOpen /\ target' = target
      BY <1>6, <2>2, PhaseStep
    <3>. QED  BY <1>6, <3>1, <3>2 DEF LogInv, ReplacementTested
  <2>. QED  BY <2>1, <2>2
<1>7. ASSUME Replace PROVE LogInv'
  BY <1>7 DEF Replace, avars, LogInv, ReplacementTested
<1>8. ASSUME Operator, UNCHANGED <<completed, staged>> PROVE LogInv'
  BY <1>1, <1>8 DEF Operator
<1>9. ASSUME EndScan PROVE UNCHANGED <<completed, staged>>
  BY <1>9 DEF EndScan
<1>10. ASSUME ApplySelected PROVE LogInv'
  <2>1. Apply(selected.dir) /\ UNCHANGED <<completed, staged>>
    BY <1>9, <1>10 DEF ApplySelected
  <2>2. selected.dir \in Manifests
    BY <1>10, CandidateType DEF ApplySelected, ScanInv, LastOf
  <2>. QED  BY <1>2, <2>1, <2>2
<1>11. ASSUME ApplyOn PROVE LogInv'
  BY <1>3, <1>4, <1>5, <1>6, <1>11 DEF ApplyOn
<1>12. ASSUME UNCHANGED avars, UNCHANGED <<completed, staged>> PROVE LogInv'
  BY <1>1, <1>12 DEF avars
<1>13. ASSUME Discover \/ (\E m \in Manifests : Consider(m)) \/ NothingFound PROVE LogInv'
  BY <1>9, <1>12, <1>13 DEF Discover, Consider, NothingFound
<1>. QED
  BY <1>2, <1>7, <1>8, <1>10, <1>11, <1>12, <1>13 DEF UpdateNext, OperatorOn, uvars

\* A helper does not replace the package manager by an executable whose build
\* failed its tests under the log the helper waits for.
THEOREM ReplacementIsTested == UpdateSpec => []ReplacementTested
<1>1. LogInv => ReplacementTested
  BY DEF LogInv
<1>. QED  BY <1>1, ScanInit, ScanStep, LogInit, LogStep, PTL DEF UpdateSpec

-----------------------------------------------------------------------------
(* Discovery and the self-update change nothing of an Apply *)

\* Every step of the tool is a step of PackageApply or leaves it alone: the
\* directory that ApplyNext selects is one a user could have named.
LEMMA UpdateMaps == ScanInv /\ [UpdateNext]_uvars => [ANext]_avars
<1>. SUFFICES ASSUME ScanInv, [UpdateNext]_uvars PROVE [ANext]_avars
  OBVIOUS
<1>1. ASSUME ApplySelected PROVE ANext
  <2>1. selected.dir \in Manifests
    BY <1>1, CandidateType DEF ApplySelected, ScanInv, LastOf
  <2>. QED  BY <1>1, <2>1 DEF ApplySelected, ANext
<1>2. ASSUME ApplyOn PROVE ANext
  BY <1>2 DEF ApplyOn, BuildsNext, Completes, ANext, ApplyStep
<1>3. ASSUME OperatorOn \/ (\E m \in Manifests : Apply(m)) PROVE ANext
  BY <1>3 DEF OperatorOn, ANext
<1>4. ASSUME Discover \/ (\E m \in Manifests : Consider(m)) \/ NothingFound \/ Replace
      PROVE  UNCHANGED avars
  BY <1>4 DEF Discover, Consider, NothingFound, Replace
<1>. QED  BY <1>1, <1>2, <1>3, <1>4 DEF UpdateNext, uvars

\* So what holds of an Apply holds of the tool with discovery and self-update.
THEOREM UpdateIsApply == UpdateSpec => AInit /\ [][ANext]_avars
<1>1. UpdateInit => AInit
  BY DEF UpdateInit
<1>. QED  BY <1>1, ScanInit, ScanStep, UpdateMaps, PTL DEF UpdateSpec

\* The range of the variables of Apply, ...
THEOREM UpdateTypeCorrect == UpdateSpec => []ATypeOK
<1>1. ApplyType => ATypeOK
  BY DEF ApplyType
<1>. QED  BY <1>1, ApplyInit, ApplyTypeStep, UpdateIsApply, PTL

\* ... what a failed Apply leaves, what it tells and what a certificate says.
THEOREM UpdateIsSafe ==
    ASSUME LogsReliable, ReplayReliable, LateReliable, DistinctBackups
    PROVE  UpdateSpec => [](FailedApplyRestores /\ RollbackIsTold /\ CertificateHolds)
<1>1. ReportInv => FailedApplyRestores /\ RollbackIsTold /\ CertificateHolds
  BY ReportSays
<1>. QED  BY <1>1, ReportInit, ReportStep, UpdateIsApply, PTL
=============================================================================
