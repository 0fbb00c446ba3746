----------------------- MODULE PackageRecoveryProofs ------------------------
(***************************************************************************)
(* Theorems about what is recoverable of the package store, for every      *)
(* value of the constants of PackageInstall: the refinement of             *)
(* AtomicPackages.                                                         *)
(***************************************************************************)
EXTENDS PackageRecovery, PackageJournalProofs

-----------------------------------------------------------------------------
(* An install that meets no failure *)

\* Every operation of the forward path succeeds and keeps what it writes.
ForwardReliable ==
    {"open", "mkdir", "backup", "journal", "copy", "commit", "archive", "index",
     "counter", "flush"} \cap Faults = {}

\* A running install is one of a manifest, and has met no failure.
Succeeding ==
    /\ op = "install" => /\ ok = 1 /\ pc \notin {"idle", "failed", "replay", "undone"}
                         /\ \E m \in Manifests : pkg = m.id /\ files = m.files
    /\ pc \notin {"idle", "replay"} => op = "install"

LEMMA SucceedingInit == Init => Succeeding
BY DEF Init, Succeeding

\* A copy from a file that is there succeeds.
LEMMA CopySucceeds ==
    ASSUME NEW f, f \notin Faults, "flush" \notin Faults,
           NEW source, source # Absent, NEW target, NEW r \in CopyOutcomes(f, source, target)
    PROVE  r.res = "ok" /\ r.is = source
BY DEF CopyOutcomes, Unflushed

LEMMA SucceedingStep ==
    ASSUME ForwardReliable, TypeOK, Succeeding, [Next]_vars
    PROVE  Succeeding'
<1>. USE DEF Succeeding, Goto, Fail, disk, ghosts, Outcomes
<1>1. CASE MkdirFails \/ StartUndo \/ MarkRolledBack
  BY <1>1 DEF MkdirFails, StartUndo, MarkRolledBack, ForwardReliable
<1>2. CASE SkipUnchanged \/ NoBackup \/ MappingsDone \/ NoOp
  <2>1. /\ pc \in {"map", "noop"} /\ pc' \in {"map", "journal", "commit", "noop", "record"}
        /\ UNCHANGED <<op, pkg, files, ok>>
    BY <1>2 DEF SkipUnchanged, NoBackup, MappingsDone, NoOp, AtMapping
  <2>. QED  BY <2>1
<1>3. CASE BackUp
  <2>1. PICK r \in CopyOutcomes("backup", file[dst], backup[pkg][BackupOf[dst]]) :
           IF r.res = "ok" THEN Goto("journal") ELSE Fail("failed")
    BY <1>3 DEF BackUp
  <2>2. r.res = "ok"
    BY <1>3, <2>1, CopySucceeds DEF BackUp, ForwardReliable
  <2>. QED  BY <1>3, <2>1, <2>2 DEF BackUp, AtMapping
<1>4. CASE Journal
  BY <1>4 DEF Journal, AppendOutcomes, Unflushed, ForwardReliable
<1>5. CASE CopyPayload
  <2>1. PICK r \in CopyOutcomes("copy", files[i].new, file[dst]) :
           IF r.res = "ok"
           THEN /\ pc' = "map" /\ i' = i + 1 /\ installed' = installed + 1
                /\ UNCHANGED <<op, pkg, files, ok, log, j>>
           ELSE Fail("failed")
    BY <1>5 DEF CopyPayload
  <2>2. files[i] \in Mapping
    BY <1>5, MappingInRange DEF CopyPayload, TypeOK, InRange
  <2>3. files[i].new # Absent
    BY <2>2, ConstantsAssumption DEF Mapping
  <2>4. r.res = "ok"
    BY <2>1, <2>3, CopySucceeds DEF ForwardReliable
  <2>. QED  BY <1>5, <2>1, <2>4 DEF CopyPayload
<1>6. CASE RemoveCommitted \/ RenamePending \/ ArchiveLog \/ AppendIndex \/ WriteCounter
  <2>1. /\ pc \in {"commit", "rename", "archive", "index", "counter"}
        /\ pc' \in {"rename", "archive", "index", "counter", "record"}
        /\ UNCHANGED <<op, pkg, files, ok>>
    BY <1>6
    DEF RemoveCommitted, RenamePending, ArchiveLog, AppendIndex, WriteCounter, ForwardReliable
  <2>. QED  BY <2>1
<1>7. CASE Record \/ Crash
  BY <1>7 DEF Record, Crash, Return
<1>8. CASE ReplayRestore \/ ReplayDelete
  BY <1>8 DEF ReplayRestore, ReplayDelete
<1>9. CASE ReplayDone
  BY <1>9 DEF ReplayDone, Return
<1>10. ASSUME NEW m \in Manifests, Begin(m) PROVE Succeeding'
  BY <1>10 DEF Begin, ForwardReliable
<1>11. ASSUME NEW name \in {"rollback", "rollback_tx"}, NEW p, NEW l, StartReplay(name, p, l)
       PROVE  Succeeding'
  BY <1>11 DEF StartReplay
<1>12. CASE UNCHANGED vars
  BY <1>12 DEF vars, locals
<1>. QED
  BY <1>1, <1>2, <1>3, <1>4, <1>5, <1>6, <1>7, <1>8, <1>9, <1>10, <1>11, <1>12
  DEF Next, Call, InstallStep, ReplayStep, Rollback, RollbackTransaction

-----------------------------------------------------------------------------
(* The refinement of the atomic store *)

\* No file operation fails or loses what it writes, but the removal of a pending
\* log, its ROLLED_BACK line and registry.txt, and the process does not die.
Faultless ==
    {"begin", "open", "mkdir", "backup", "journal", "copy", "commit", "archive", "index",
     "counter", "restore", "flush", "crash"} \cap Faults = {}

\* What the files of the history say each transaction has changed.
TouchedOf(p) == [id \in 1 .. next[p] - 1 |-> Dsts(LinesOf(archive[p][id]))]

\* The running install has replaced a file, or is about to.
Replacing ==
    op = "install" /\ (installed > 0 \/ pc \in {"journal", "copy"})

\* The running install has moved the counter past its transaction.
Counted == op = "install" /\ pc = "record" /\ installed > 0

\* The labels between the removal of the committed log and the new counter.
Swapping == {"rename", "archive", "index", "counter"}

\* Files and backups are complete.
Complete ==
    /\ file \in [Paths -> Contents \cup {Absent}]
    /\ backup \in [Packages -> [Backups -> Contents \cup {Absent}]]

\* The last log of an install names the mappings it replaced, and no other.
Exact ==
    /\ pc \in {"journal", "copy"} => file[dst] # files[i].new
    /\ op = "install" /\ unfinished = "install" =>
          /\ \A k \in DOMAIN LastLog : \E n \in DOMAIN files :
                LastLog[k].dst = files[n].dst /\ before[files[n].dst] # files[n].new
          /\ installed > 0 => DOMAIN LastLog # {}

\* The lines of a committed log can be replayed, in any order.
Replayable(l, p) ==
    \A k, n \in DOMAIN l :
       /\ l[k].dst = l[n].dst => l[k].op = l[n].op
       /\ l[k].op = "RESTORE" => backup[p][BackupOf[l[k].dst]] # Absent

\* The newest archived log is the committed one, and none is newer.
Newest ==
    \A p \in Packages :
       /\ Replayable(LinesOf(tx[p]), p)
       /\ next[p] > 1 /\ ~(p = pkg /\ pc \in Swapping) =>
             tx[p] # NoLog /\ archive[p][next[p] - 1] = tx[p]
       /\ \A id \in next[p] .. TxBound :
             archive[p][id] = NoLog \/ (p = pkg /\ pc \in {"index", "counter"} /\ id = j)

\* While a call runs the store is the one the call found ...
Seen ==
    /\ op = "install" => seen.repo = before
    /\ pc = "idle" => seen.repo = file
    /\ seen.undo = [p \in Packages |-> seen.undo[p]]
    /\ \A p \in Packages : ~(p = pkg /\ Replacing) => seen.undo[p] = UndoOf(p)
    /\ seen.touched = [p \in Packages |-> seen.touched[p]]
    /\ \A p \in Packages :
          IF p = pkg /\ Counted
          THEN /\ next[p] = j + 1
               /\ seen.touched[p] = [id \in 1 .. j - 1 |-> Dsts(LinesOf(archive[p][id]))]
          ELSE seen.touched[p] = TouchedOf(p)

\* ... up to the files that a replay has put back.
Replaying ==
    pc = "replay" =>
       \/ /\ log = tx[pkg]
          /\ \A d \in Paths : file[d] = IF \E k \in DOMAIN log : k < j /\ log[k].dst = d
                                        THEN UndoOf(pkg)[d] ELSE seen.repo[d]
       \/ /\ \E id \in 1 .. next[pkg] - 2 : log = archive[pkg][id]
          /\ \A d \in Paths : ~Named(log, d) => file[d] = seen.repo[d]

StoreInv == Complete /\ Exact /\ Newest /\ Seen /\ Replaying

RecoveryInv ==
    /\ PlacedInv /\ HistoryInv /\ Outcome /\ HandedOut /\ Succeeding
    /\ StoreInv

LEMMA Reliable ==
    ASSUME Faultless
    PROVE  /\ LogsReliable /\ ReplayReliable /\ LateReliable /\ CounterReliable
           /\ ForwardReliable /\ "crash" \notin Faults
BY DEF Faultless, LogsReliable, ReplayReliable, LateReliable, CounterReliable, ForwardReliable

\* What the installer's own invariants say of a step.
LEMMA InstallerKept ==
    ASSUME Faultless, DistinctBackups, RecoveryInv, [RNext]_rvars
    PROVE  /\ [Next]_vars
           /\ PlacedInv' /\ HistoryInv' /\ Outcome' /\ HandedOut' /\ Succeeding'
           /\ JournalInv /\ TypeOK /\ JournalInv' /\ TypeOK'
<1>1. [Next]_vars
  BY DEF RNext, rvars
<1>2. JournalInv /\ TypeOK
  BY DEF RecoveryInv, PlacedInv, JournalInv
<1>3. PlacedInv'
  BY <1>1, Reliable, PlacedStep DEF RecoveryInv
<1>4. HistoryInv'
  BY <1>1, Reliable, HistoryStep DEF RecoveryInv
<1>5. Outcome'
  BY <1>1, <1>2, OutcomeStep DEF RecoveryInv
<1>6. HandedOut'
  BY <1>1, <1>2, Reliable, HandedOutStep DEF RecoveryInv
<1>7. Succeeding'
  BY <1>1, <1>2, Reliable, SucceedingStep DEF RecoveryInv
<1>. QED  BY <1>1, <1>2, <1>3, <1>4, <1>5, <1>6, <1>7 DEF PlacedInv, JournalInv

-----------------------------------------------------------------------------
(* What each operation does when it does not fail *)

LEMMA NothingFails ==
    ASSUME Faultless, Succeeding
    PROVE  ~MkdirFails /\ ~StartUndo /\ ~MarkRolledBack /\ ~Crash
BY Reliable DEF ForwardReliable, Succeeding, MkdirFails, StartUndo, MarkRolledBack, Crash, Outcomes

\* The mapping at i, while one is looked at.
LEMMA MappingAt ==
    ASSUME TypeOK, i <= Len(files)
    PROVE  /\ dst \in Paths /\ files[i].new \in Contents /\ files[i].new # Absent
           /\ i \in DOMAIN files /\ dst = files[i].dst /\ BackupOf[dst] \in Backups
<1>1. files[i] \in Mapping /\ dst \in Paths
  BY MappingInRange
<1>2. i \in DOMAIN files
  BY DEF TypeOK, LocalsType
<1>. QED  BY <1>1, <1>2, ConstantsAssumption DEF Mapping, dst

LEMMA BackUpDoes ==
    ASSUME Faultless, BackUp
    PROVE  /\ pc = "map" /\ i <= Len(files) /\ pc' = "journal"
           /\ file[dst] # Absent /\ file[dst] # files[i].new
           /\ backup' = [backup EXCEPT ![pkg][BackupOf[dst]] = file[dst]]
           /\ UNCHANGED <<file, pending, tx, archive, next, op, pkg, files, i, installed,
                          before, unfinished>>
<1>1. PICK r \in CopyOutcomes("backup", file[dst], backup[pkg][BackupOf[dst]]) :
         /\ backup' = [backup EXCEPT ![pkg][BackupOf[dst]] = r.is]
         /\ IF r.res = "ok" THEN Goto("journal") ELSE Fail("failed")
  BY DEF BackUp
<1>2. r.res = "ok" /\ r.is = file[dst]
  BY <1>1, CopySucceeds DEF BackUp, Faultless
<1>. QED  BY <1>1, <1>2 DEF BackUp, AtMapping, UpToDate, Goto, ghosts

LEMMA JournalDoes ==
    ASSUME Faultless, TypeOK, Journal
    PROVE  /\ pc = "journal" /\ i <= Len(files) /\ pc' = "copy"
           /\ pending' = [pending EXCEPT ![pkg] = Append(LinesOf(pending[pkg]), JournalLine)]
           /\ UNCHANGED <<file, backup, tx, archive, next, op, pkg, files, i, installed,
                          before, unfinished>>
<1>1. PICK r \in AppendOutcomes("journal", pending[pkg], JournalLine) :
         /\ pending' = [pending EXCEPT ![pkg] = r.is]
         /\ IF r.res = "ok" THEN Goto("copy") ELSE Fail("failed")
  BY DEF Journal
<1>2. r = [res |-> "ok", is |-> Append(LinesOf(pending[pkg]), JournalLine)]
  BY <1>1 DEF AppendOutcomes, Unflushed, Faultless
<1>3. pc = "journal" /\ i <= Len(files)
  BY DEF Journal, TypeOK, InRange
<1>. QED  BY <1>1, <1>2, <1>3 DEF Journal, Goto, ghosts

LEMMA CopyDoes ==
    ASSUME Faultless, TypeOK, CopyPayload
    PROVE  /\ pc = "copy" /\ i <= Len(files) /\ pc' = "map" /\ installed' = installed + 1
           /\ file' = [file EXCEPT ![dst] = files[i].new]
           /\ UNCHANGED <<backup, pending, tx, archive, next, op, pkg, files,
                          before, unfinished>>
<1>1. PICK r \in CopyOutcomes("copy", files[i].new, file[dst]) :
         /\ file' = [file EXCEPT ![dst] = r.is]
         /\ IF r.res = "ok"
            THEN /\ pc' = "map" /\ i' = i + 1 /\ installed' = installed + 1
                 /\ UNCHANGED <<op, pkg, files, ok, log, j>>
            ELSE Fail("failed")
  BY DEF CopyPayload
<1>2. pc = "copy" /\ i <= Len(files)
  BY DEF CopyPayload, TypeOK, InRange
<1>3. r.res = "ok" /\ r.is = files[i].new
  BY <1>1, <1>2, MappingAt, CopySucceeds DEF Faultless
<1>. QED  BY <1>1, <1>2, <1>3 DEF CopyPayload, ghosts

LEMMA CommitDoes ==
    ASSUME Faultless, JournalInv, RemoveCommitted \/ RenamePending
    PROVE  /\ \/ pc = "commit" /\ pc' = "rename" /\ tx' = [tx EXCEPT ![pkg] = NoLog]
                 /\ pending' = pending
              \/ pc = "rename" /\ pc' = "archive" /\ tx' = [tx EXCEPT ![pkg] = pending[pkg]]
                 /\ pending' = [pending EXCEPT ![pkg] = NoLog]
           /\ UNCHANGED <<file, backup, archive, next, op, pkg, files, i, installed,
                          before, unfinished>>
<1>1. CASE RemoveCommitted
  <2>1. pending[pkg] # NoLog
    BY <1>1 DEF RemoveCommitted, JournalInv, Installing, Undoable
  <2>2. [pending EXCEPT ![pkg] = LinesOf(@)] = pending
    BY <2>1 DEF LinesOf, JournalInv, TypeOK, DiskType
  <2>. QED  BY <1>1, <2>2 DEF RemoveCommitted, Outcomes, Faultless, Goto, ghosts
<1>2. CASE RenamePending
  BY <1>2 DEF RenamePending, Outcomes, Faultless, Goto, ghosts
<1>. QED  BY <1>1, <1>2

LEMMA HistoryDoes ==
    ASSUME Faultless, TypeOK, ArchiveLog \/ AppendIndex
    PROVE  /\ \/ /\ pc = "archive" /\ pc' = "index" /\ j' = next[pkg] /\ j' \in 1 .. TxBound
                 /\ \A p \in Packages : \A n \in 1 .. TxBound :
                       archive'[p][n] # archive[p][n] => p = pkg /\ n = j'
              \/ pc = "index" /\ pc' = "counter" /\ j' = j /\ archive' = archive
           /\ UNCHANGED <<file, backup, pending, tx, next, op, pkg, files, i, installed,
                          before, unfinished>>
<1>1. CASE ArchiveLog
  <2>1. pc' = "index"
    BY <1>1 DEF ArchiveLog, Outcomes, Faultless
  <2>. QED  BY <1>1, <2>1, Archived, Reliable DEF ArchiveLog, ghosts
<1>2. CASE AppendIndex
  BY <1>2 DEF AppendIndex, Outcomes, Faultless, Goto, ghosts
<1>. QED  BY <1>1, <1>2

LEMMA CounterDoes ==
    ASSUME Faultless, WriteCounter
    PROVE  /\ pc = "counter" /\ pc' = "record" /\ next' = [next EXCEPT ![pkg] = j + 1]
           /\ UNCHANGED <<file, backup, pending, tx, archive, op, pkg, files, i, installed, j,
                          before, unfinished>>
BY DEF WriteCounter, Outcomes, Unflushed, Faultless, IdAfter, Goto, ghosts

\* The steps of the manifest loop that only look.
LEMMA LooksOnly ==
    ASSUME SkipUnchanged \/ NoBackup \/ MappingsDone \/ NoOp
    PROVE  /\ pc \in {"map", "noop"} /\ pc' \in {"map", "journal", "commit", "noop", "record"}
           /\ pc' = "journal" => i <= Len(files) /\ file[dst] # files[i].new /\ i' = i
           /\ pc' = "record" => pc = "noop" /\ unfinished' = "none"
           /\ pc' # "record" => UNCHANGED <<pending, unfinished>>
           /\ pc' = "commit" => installed > 0
           /\ UNCHANGED <<file, backup, tx, archive, next, op, pkg, files, installed, before>>
BY DEF SkipUnchanged, NoBackup, MappingsDone, NoOp, AtMapping, UpToDate, Goto, disk, ghosts

\* A replayed line: what the file it names then is.
Restored(l, p) ==
    IF l.op = "DELETE" THEN Absent
    ELSE IF backup[p][BackupOf[l.dst]] # Absent THEN backup[p][BackupOf[l.dst]] ELSE file[l.dst]

LEMMA ReplayDoes ==
    ASSUME Faultless, TypeOK, ReplayRestore \/ ReplayDelete
    PROVE  /\ pc = "replay" /\ pc' = "replay" /\ j \in DOMAIN log /\ j' = j + 1
           /\ log[j] \in Entry /\ log[j].dst \in Paths
           /\ file' = [file EXCEPT ![log[j].dst] = Restored(log[j], pkg)]
           /\ UNCHANGED <<backup, pending, tx, archive, next, op, pkg, files, i, installed, log,
                          before, unfinished>>
<1>1. LineLeft
  BY DEF ReplayRestore, ReplayDelete
<1>2. log[j] \in Entry /\ log[j].dst \in Paths /\ j \in DOMAIN log
  BY <1>1, LineInRange DEF LineLeft, TypeOK, LocalsType
<1>3. CASE ReplayRestore
  <2>1. PICK r \in CopyOutcomes("restore", backup[pkg][BackupOf[log[j].dst]], file[log[j].dst]) :
           file' = [file EXCEPT ![log[j].dst] = r.is]
    BY <1>3 DEF ReplayRestore
  <2>2. r.is = Restored(log[j], pkg)
    BY <1>3, <2>1 DEF CopyOutcomes, Unflushed, Faultless, Restored, ReplayRestore
  <2>. QED  BY <1>2, <1>3, <2>1, <2>2 DEF ReplayRestore, NextLine, ghosts
<1>4. CASE ReplayDelete
  <2>1. file' = [file EXCEPT ![log[j].dst] = Absent]
    BY <1>4 DEF ReplayDelete, Outcomes, Faultless
  <2>2. Restored(log[j], pkg) = Absent
    BY <1>4 DEF ReplayDelete, Restored
  <2>. QED  BY <1>2, <1>4, <2>1, <2>2 DEF ReplayDelete, NextLine, ghosts
<1>. QED  BY <1>3, <1>4

\* The calls and their ends.
LEMMA BeginDoes ==
    ASSUME Faultless, NEW m \in Manifests, Begin(m)
    PROVE  /\ pc = "idle" /\ pc' = "map" /\ op' = "install" /\ pkg' = m.id /\ files' = m.files
           /\ pending' = [pending EXCEPT ![m.id] = <<>>] /\ installed' = 0
           /\ before' = file /\ unfinished' = "install"
           /\ UNCHANGED <<file, backup, tx, archive, next>>
BY DEF Begin, Outcomes, Faultless

LEMMA ReturnDoes ==
    ASSUME Succeeding, Record \/ ReplayDone
    PROVE  /\ pc' = "idle" /\ op' = "none" /\ UNCHANGED <<file, backup, tx, archive, next, pkg>>
           /\ \/ pc = "record" /\ op = "install" /\ Record
              \/ pc = "replay" /\ op # "install" /\ ~LineLeft /\ ReplayDone
BY DEF Succeeding, Record, ReplayDone, Return, disk, ghosts

LEMMA StartDoes ==
    ASSUME \/ \E p \in Packages : Rollback(p)
           \/ \E p \in Packages, id \in 1 .. TxBound : RollbackTransaction(p, id)
    PROVE  /\ pc = "idle" /\ pc' = "replay" /\ op' # "install" /\ j' = 1
           /\ unfinished' = "none" /\ pkg' \in Packages
           /\ \/ log' = tx[pkg']
              \/ \E id \in 1 .. TxBound : log' = archive[pkg'][id] /\ log' # NoLog
           /\ UNCHANGED <<file, backup, pending, tx, archive, next>>
BY DEF Rollback, RollbackTransaction, StartReplay, disk

\* Every step is one of these.
LEMMA StepKinds ==
    ASSUME Faultless, Succeeding, [Next]_vars
    PROVE  \/ SkipUnchanged \/ NoBackup \/ MappingsDone \/ NoOp
           \/ BackUp \/ Journal \/ CopyPayload \/ RemoveCommitted \/ RenamePending
           \/ ArchiveLog \/ AppendIndex \/ WriteCounter
           \/ ReplayRestore \/ ReplayDelete \/ Record \/ ReplayDone
           \/ \E m \in Manifests : Begin(m)
           \/ \E p \in Packages : Rollback(p)
           \/ \E p \in Packages, id \in 1 .. TxBound : RollbackTransaction(p, id)
           \/ UNCHANGED vars
BY NothingFails DEF Next, Call, InstallStep, ReplayStep

-----------------------------------------------------------------------------
(* The parts of StoreInv, one by one *)

LEMMA CompleteStep ==
    ASSUME Faultless, TypeOK, Succeeding, Complete, [Next]_vars
    PROVE  Complete'
<1>1. CASE BackUp
  <2>1. file[dst] \in Contents \cup {Absent}
    BY <1>1, BackUpDoes, MappingAt DEF Complete
  <2>. QED  BY <1>1, <2>1, BackUpDoes DEF Complete
<1>2. CASE CopyPayload
  <2>1. files[i].new \in Contents
    BY <1>2, CopyDoes, MappingAt
  <2>. QED  BY <1>2, <2>1, CopyDoes DEF Complete
<1>3. CASE ReplayRestore \/ ReplayDelete
  <2>1. pkg \in Packages /\ log[j].dst \in Paths /\ BackupOf[log[j].dst] \in Backups
    BY <1>3, ReplayDoes, ConstantsAssumption DEF TypeOK, LocalsType
  <2>2. Restored(log[j], pkg) \in Contents \cup {Absent}
    BY <2>1 DEF Complete, Restored
  <2>. QED  BY <1>3, <2>2, ReplayDoes DEF Complete
<1>4. CASE ~BackUp /\ ~CopyPayload /\ ~ReplayRestore /\ ~ReplayDelete
  <2>1. UNCHANGED <<file, backup>>
    BY <1>4, NothingFails
    DEF Next, Call, InstallStep, ReplayStep, SkipUnchanged, NoBackup, Journal, MappingsDone,
        NoOp, RemoveCommitted, RenamePending, ArchiveLog, AppendIndex, WriteCounter, Record,
        ReplayDone, Begin, Rollback, RollbackTransaction, StartReplay, disk, vars
  <2>. QED  BY <2>1 DEF Complete
<1>. QED  BY <1>1, <1>2, <1>3, <1>4

LEMMA ExactKept ==
    ASSUME Exact, LastLog' = LastLog, UNCHANGED <<op, files, before, unfinished>>,
           installed' = installed \/ DOMAIN LastLog # {},
           pc' \in {"journal", "copy"} => dst' = dst /\ file'[dst] # files[i].new /\ i' = i
    PROVE  Exact'
BY DEF Exact

LEMMA ExactStep ==
    ASSUME Faultless, JournalInv, Succeeding, Exact, [Next]_vars
    PROVE  Exact'
<1>. USE DEF LastLog
<1>a. TypeOK
  BY DEF JournalInv
<1>1. CASE SkipUnchanged \/ NoBackup \/ MappingsDone \/ NoOp
  <2>1. CASE pc' = "record"
    BY <1>1, <2>1, LooksOnly DEF Exact
  <2>2. CASE pc' # "record"
    BY <1>1, <2>2, LooksOnly, ExactKept DEF dst
  <2>. QED  BY <2>1, <2>2
<1>2. CASE BackUp
  BY <1>2, BackUpDoes, ExactKept DEF dst
<1>3. CASE Journal
  <2>1. pc = "journal" /\ i <= Len(files) /\ pending[pkg] # NoLog /\ pkg \in Packages
    BY <1>3, <1>a, JournalDoes DEF JournalInv, Installing, Undoable, TypeOK, LocalsType
  <2>2. dst = files[i].dst /\ i \in DOMAIN files /\ dst \in Paths
    BY <1>a, <2>1, MappingAt
  <2>3. before[dst] # files[i].new /\ file[dst] # files[i].new
    BY <2>1, StillBefore DEF Exact
  <2>4. pending[pkg] \in Seq(Entry) /\ JournalLine \in Entry /\ JournalLine.dst = dst
    BY <1>a, <2>1, <2>2 DEF TypeOK, DiskType, JournalLine, Entry
  <2>5. /\ pending'[pkg] = Append(pending[pkg], JournalLine)
        /\ pending'[pkg] # NoLog
    <3>1. pending'[pkg] = Append(LinesOf(pending[pkg]), JournalLine)
      BY <1>3, <1>a, <2>1, JournalDoes DEF TypeOK, DiskType
    <3>2. Append(pending[pkg], JournalLine) \in Seq(Entry)
      BY <2>4
    <3>. QED  BY <2>1, <3>1, <3>2, ConstantsAssumption DEF LinesOf
  <2>6. LastLog = pending[pkg] /\ LastLog' = Append(pending[pkg], JournalLine)
    BY <1>3, <1>a, <2>1, <2>5, JournalDoes
  <2>7. ASSUME NEW k \in DOMAIN LastLog', op = "install", unfinished = "install"
        PROVE  \E n \in DOMAIN files :
                  LastLog'[k].dst = files[n].dst /\ before[files[n].dst] # files[n].new
    <3>1. CASE k \in DOMAIN pending[pkg]
      <4>1. LastLog'[k] = pending[pkg][k]
        BY <2>4, <2>6, <3>1
      <4>. QED  BY <2>6, <2>7, <3>1, <4>1 DEF Exact
    <3>2. CASE k \notin DOMAIN pending[pkg]
      <4>1. LastLog'[k] = JournalLine
        BY <2>4, <2>6, <2>7, <3>2
      <4>. QED  BY <2>2, <2>3, <2>4, <4>1
    <3>. QED  BY <3>1, <3>2
  <2>8. DOMAIN LastLog' # {}
    BY <2>4, <2>6
  <2>. QED  BY <1>3, <1>a, <2>2, <2>3, <2>7, <2>8, JournalDoes DEF Exact, dst
<1>4. CASE CopyPayload
  <2>1. pending[pkg] # NoLog /\ Named(pending[pkg], dst)
    BY <1>4, <1>a, CopyDoes DEF JournalInv, Installing, Undoable, Journalled
  <2>2. DOMAIN LastLog # {}
    BY <2>1 DEF Named
  <2>. QED  BY <1>4, <1>a, <2>2, CopyDoes, ExactKept
<1>5. CASE RemoveCommitted \/ RenamePending
  <2>1. pending[pkg] # NoLog /\ pkg \in Packages
    BY <1>5, CommitDoes DEF JournalInv, Installing, Undoable, TypeOK, LocalsType
  <2>2. LastLog' = LastLog
    BY <1>5, <1>a, <2>1, CommitDoes DEF TypeOK, DiskType
  <2>. QED  BY <1>5, <2>2, CommitDoes, ExactKept
<1>6. CASE ArchiveLog \/ AppendIndex
  <2>1. UNCHANGED <<pending, tx, pkg, op, files, before, unfinished, installed>> /\ pc' \notin {"journal", "copy"}
    BY <1>6, <1>a, HistoryDoes
  <2>. QED  BY <2>1, ExactKept
<1>7. CASE WriteCounter
  BY <1>7, CounterDoes, ExactKept
<1>8. CASE ReplayRestore \/ ReplayDelete
  BY <1>8, <1>a, ReplayDoes DEF Exact, Succeeding
<1>9. CASE Record \/ ReplayDone
  BY <1>9, ReturnDoes DEF Exact
<1>10. ASSUME NEW m \in Manifests, Begin(m) PROVE Exact'
  <2>1. pending'[pkg'] = <<>>
    BY <1>10, <1>a, BeginDoes, ConstantsAssumption DEF TypeOK, DiskType
  <2>2. LastLog' = <<>>
    <3>1. <<>> \in Seq(Entry)
      OBVIOUS
    <3>. QED  BY <2>1, <3>1, ConstantsAssumption
  <2>. QED  BY <1>10, <2>2, BeginDoes DEF Exact
<1>11. CASE (\E p \in Packages : Rollback(p))
            \/ (\E p \in Packages, id \in 1 .. TxBound : RollbackTransaction(p, id))
  BY <1>11, StartDoes DEF Exact
<1>12. CASE UNCHANGED vars
  BY <1>12 DEF vars, disk, locals, ghosts, Exact, dst
<1>. QED
  BY <1>1, <1>2, <1>3, <1>4, <1>5, <1>6, <1>7, <1>8, <1>9, <1>10, <1>11, <1>12, StepKinds

\* A log that undoes an install can be replayed in any order.
LEMMA UndoesReplayable ==
    ASSUME NEW l \in Seq(Entry), NEW p, NEW t, Undoes(l, p, t)
    PROVE  Replayable(l, p)
<1>1. \A k \in DOMAIN l : l[k] \in Entry
  OBVIOUS
<1>. QED  BY <1>1 DEF Undoes, Replayable, Entry

\* A step away from the commit keeps what is said of the newest log, when it
\* loses no backup.
LEMMA NewestKept ==
    ASSUME Newest, UNCHANGED <<tx, archive, next>>, pc \notin Swapping, pc' \notin Swapping,
           \A p \in Packages : \A k \in DOMAIN LinesOf(tx[p]) :
              LET b == BackupOf[LinesOf(tx[p])[k].dst]
              IN  backup[p][b] # Absent => backup'[p][b] # Absent
    PROVE  Newest'
BY DEF Newest, Replayable, Swapping

LEMMA NewestStep ==
    ASSUME Faultless, JournalInv, HistoryInv, HandedOut, Succeeding, Newest, [Next]_vars
    PROVE  Newest'
<1>a. TypeOK
  BY DEF JournalInv
<1>1. CASE SkipUnchanged \/ NoBackup \/ MappingsDone \/ NoOp
  BY <1>1, LooksOnly, NewestKept DEF Swapping
<1>2. CASE BackUp
  <2>1. /\ backup' = [backup EXCEPT ![pkg][BackupOf[dst]] = file[dst]] /\ file[dst] # Absent
        /\ backup \in [Packages -> [Backups -> State]]
    BY <1>2, <1>a, BackUpDoes DEF TypeOK, DiskType
  <2>2. ASSUME NEW p \in Packages, NEW b, backup[p][b] # Absent
        PROVE  backup'[p][b] # Absent
    BY <2>1, <2>2
  <2>. QED  BY <1>2, <2>2, BackUpDoes, NewestKept DEF Swapping
<1>3. CASE Journal
  BY <1>3, <1>a, JournalDoes, NewestKept DEF Swapping
<1>4. CASE CopyPayload
  BY <1>4, <1>a, CopyDoes, NewestKept DEF Swapping
<1>5. CASE RemoveCommitted \/ RenamePending
  <2>1. pending[pkg] # NoLog /\ pkg \in Packages /\ unfinished = "install"
    BY <1>5, CommitDoes DEF JournalInv, Installing, Undoable, TypeOK, LocalsType
  <2>2. Replayable(pending[pkg], pkg) /\ LinesOf(pending[pkg]) = pending[pkg]
    <3>1. Undoes(pending[pkg], pkg, before) /\ pending[pkg] \in Seq(Entry)
      BY <1>a, <2>1 DEF JournalInv, JournalCovers, LastLog, TypeOK, DiskType
    <3>. QED  BY <2>1, <3>1, UndoesReplayable DEF LinesOf
  <2>3. Replayable(LinesOf(NoLog), pkg)
    BY DEF Replayable, LinesOf
  <2>4. /\ pkg' = pkg /\ UNCHANGED <<backup, archive, next>> /\ pc' \in {"rename", "archive"}
        /\ pc \in {"commit", "rename"}
        /\ \A p \in Packages : p # pkg => tx'[p] = tx[p]
        /\ tx'[pkg] \in {NoLog, pending[pkg]}
    BY <1>5, <1>a, <2>1, CommitDoes DEF TypeOK, DiskType
  <2>5. \A p \in Packages : Replayable(LinesOf(tx[p]), p)'
    BY <2>2, <2>3, <2>4 DEF Newest, Replayable, LinesOf
  <2>. QED  BY <2>4, <2>5 DEF Newest, Swapping
<1>6. CASE ArchiveLog \/ AppendIndex
  <2>1. \A p \in Packages : Replayable(LinesOf(tx[p]), p)'
    BY <1>6, <1>a, HistoryDoes DEF Newest, Replayable, LinesOf
  <2>2. \A p \in Packages : next[p] \in 1 .. TxBound + 1
    BY <1>a DEF TypeOK, DiskType
  <2>3. pkg \in Packages /\ pkg' = pkg /\ next' = next /\ tx' = tx /\ pc' \in {"index", "counter"}
    BY <1>6, <1>a, HistoryDoes DEF TypeOK, LocalsType
  <2>4. ASSUME NEW p \in Packages, next[p] > 1, p # pkg
        PROVE  tx'[p] # NoLog /\ archive'[p][next[p] - 1] = tx'[p]
    <3>1. tx[p] # NoLog /\ archive[p][next[p] - 1] = tx[p]
      BY <2>4 DEF Newest
    <3>2. next[p] - 1 \in 1 .. TxBound
      BY <2>2, <2>4, ConstantsAssumption
    <3>. QED  BY <1>6, <1>a, <2>3, <2>4, <3>1, <3>2, HistoryDoes
  <2>5. ASSUME NEW p \in Packages, NEW id \in next[p] .. TxBound
        PROVE  archive'[p][id] = NoLog \/ (p = pkg /\ id = j')
    <3>1. id \in 1 .. TxBound
      BY <2>2, <2>5, ConstantsAssumption
    <3>2. CASE pc = "archive"
      BY <1>6, <1>a, <3>1, <3>2, HistoryDoes DEF Newest
    <3>3. CASE pc = "index"
      BY <1>6, <1>a, <3>1, <3>3, HistoryDoes DEF Newest
    <3>. QED  BY <1>6, <1>a, <3>2, <3>3, HistoryDoes
  <2>. QED  BY <2>1, <2>3, <2>4, <2>5 DEF Newest, Swapping
<1>7. CASE WriteCounter
  <2>1. /\ pc = "counter" /\ pc' = "record" /\ next' = [next EXCEPT ![pkg] = j + 1]
        /\ UNCHANGED <<tx, archive, backup, pkg>> /\ pkg \in Packages
    BY <1>7, <1>a, CounterDoes DEF TypeOK, LocalsType
  <2>2. j = next[pkg] /\ j \in 1 .. TxBound + 1 /\ archive[pkg][j] = tx[pkg] /\ tx[pkg] # NoLog
    BY <1>a, <2>1 DEF HistoryInv, Archiving, HandedOut, TypeOK, DiskType
  <2>3. \A p \in Packages : next'[p] = IF p = pkg THEN j + 1 ELSE next[p]
    BY <1>a, <2>1 DEF TypeOK, DiskType
  <2>4. \A p \in Packages : Replayable(LinesOf(tx[p]), p)'
    BY <2>1 DEF Newest, Replayable, LinesOf
  <2>5. ASSUME NEW p \in Packages, next'[p] > 1
        PROVE  tx[p] # NoLog /\ archive[p][next'[p] - 1] = tx[p]
    <3>1. CASE p = pkg
      <4>1. next'[p] - 1 = j
        BY <2>2, <2>3, <3>1, ConstantsAssumption
      <4>. QED  BY <2>2, <3>1, <4>1
    <3>2. CASE p # pkg
      BY <2>3, <2>5, <3>2 DEF Newest
    <3>. QED  BY <3>1, <3>2
  <2>6. ASSUME NEW p \in Packages, NEW id \in next'[p] .. TxBound
        PROVE  archive[p][id] = NoLog
    <3>1. CASE p = pkg
      <4>1. id \in next[pkg] .. TxBound /\ id # j
        BY <2>2, <2>3, <2>6, <3>1, ConstantsAssumption
      <4>. QED  BY <3>1, <4>1 DEF Newest
    <3>2. CASE p # pkg
      BY <2>3, <2>6, <3>2 DEF Newest
    <3>. QED  BY <3>1, <3>2
  <2>. QED  BY <2>1, <2>4, <2>5, <2>6 DEF Newest
<1>8. CASE ReplayRestore \/ ReplayDelete
  BY <1>8, <1>a, ReplayDoes, NewestKept DEF Swapping
<1>9. CASE Record \/ ReplayDone
  BY <1>9, ReturnDoes, NewestKept DEF Swapping
<1>10. ASSUME NEW m \in Manifests, Begin(m) PROVE Newest'
  BY <1>10, BeginDoes, NewestKept DEF Swapping
<1>11. CASE (\E p \in Packages : Rollback(p))
            \/ (\E p \in Packages, id \in 1 .. TxBound : RollbackTransaction(p, id))
  BY <1>11, StartDoes, NewestKept DEF Swapping
<1>12. CASE UNCHANGED vars
  BY <1>12 DEF vars, disk, locals, Newest, Replayable, LinesOf
<1>. QED
  BY <1>1, <1>2, <1>3, <1>4, <1>5, <1>6, <1>7, <1>8, <1>9, <1>10, <1>11, <1>12, StepKinds

LEMMA UndoSame ==
    ASSUME NEW p, tx'[p] = tx[p], backup'[p] = backup[p]
    PROVE  UndoOf(p)' = UndoOf(p)
BY DEF UndoOf, LinesOf, Dsts

LEMMA TouchedSame ==
    ASSUME NEW p, next'[p] = next[p],
           \A id \in 1 .. next[p] - 1 : archive'[p][id] = archive[p][id]
    PROVE  TouchedOf(p)' = TouchedOf(p)
BY DEF TouchedOf, LinesOf, Dsts

\* No call runs, or a recovery: nothing of the store is being replaced.
LEMMA NothingReplaced ==
    ASSUME Seen, op # "install"
    PROVE  \A p \in Packages : seen.undo[p] = UndoOf(p) /\ seen.touched[p] = TouchedOf(p)
BY DEF Seen, Replacing, Counted

\* A step inside an install that does not write the counter.
LEMMA SeenKept ==
    ASSUME Seen, seen' = seen, pc' # "idle", UNCHANGED <<op, pkg, before, next>>,
           Replacing => Replacing', ~Counted, ~Counted',
           \A p \in Packages : \/ p = pkg /\ Replacing'
                               \/ tx'[p] = tx[p] /\ backup'[p] = backup[p],
           \A p \in Packages : \A id \in 1 .. next[p] - 1 : archive'[p][id] = archive[p][id]
    PROVE  Seen'
<1>1. \A p \in Packages : ~(p = pkg /\ Replacing') => seen.undo[p] = UndoOf(p)'
  BY UndoSame DEF Seen
<1>2. \A p \in Packages : seen.touched[p] = TouchedOf(p)'
  BY TouchedSame DEF Seen
<1>. QED  BY <1>1, <1>2 DEF Seen

\* The end of a call, or the start of one.
LEMMA SeenAtRest ==
    ASSUME op' # "install" \/ (installed' = 0 /\ pc' = "map"),
           \/ seen' = Store' /\ op' # "install"
           \/ /\ seen' = seen /\ Seen /\ op # "install" /\ pc' # "idle"
              /\ UNCHANGED <<backup, tx, archive, next>>
              /\ op' = "install" => before' = seen.repo
    PROVE  Seen'
<1>1. ~Replacing' /\ ~Counted'
  BY DEF Replacing, Counted
<1>2. CASE seen' = Store' /\ op' # "install"
  <2>1. /\ seen'.repo = file' /\ seen'.undo = [p \in Packages |-> UndoOf(p)']
        /\ seen'.touched = [p \in Packages |-> TouchedOf(p)']
    BY <1>2 DEF Store, TouchedOf
  <2>. QED  BY <1>1, <1>2, <2>1 DEF Seen
<1>3. CASE /\ seen' = seen /\ Seen /\ op # "install" /\ pc' # "idle"
           /\ UNCHANGED <<backup, tx, archive, next>>
           /\ op' = "install" => before' = seen.repo
  <2>1. \A p \in Packages : seen.undo[p] = UndoOf(p)' /\ seen.touched[p] = TouchedOf(p)'
    BY <1>3, NothingReplaced, UndoSame, TouchedSame
  <2>. QED  BY <1>1, <1>3, <2>1 DEF Seen
<1>. QED  BY <1>2, <1>3

LEMMA SeenStep ==
    ASSUME Faultless, JournalInv, HistoryInv, Outcome, Succeeding, Seen, [RNext]_rvars
    PROVE  Seen'
<1>a. TypeOK /\ [Next]_vars /\ pkg \in Packages
  BY DEF JournalInv, RNext, rvars, TypeOK, LocalsType
<1>b. pc' # "idle" => seen' = seen
  BY DEF RNext, Observe, rvars
<1>c. pc # "idle" /\ pc # "replay" => op = "install"
  BY DEF Succeeding
<1>. USE DEF Replacing, Counted
<1>1. CASE SkipUnchanged \/ NoBackup \/ MappingsDone \/ NoOp
  <2>1. pc' = "record" => installed = 0
    BY <1>1, LooksOnly DEF Outcome
  <2>. QED  BY <1>1, <1>b, <2>1, LooksOnly, SeenKept
<1>2. CASE BackUp
  <2>1. \A p \in Packages : p # pkg => backup'[p] = backup[p]
    BY <1>2, <1>a, BackUpDoes DEF TypeOK, DiskType
  <2>. QED  BY <1>2, <1>b, <1>c, <2>1, BackUpDoes, SeenKept
<1>3. CASE Journal
  BY <1>3, <1>a, <1>b, JournalDoes, SeenKept
<1>4. CASE CopyPayload
  <2>1. installed' > 0
    BY <1>4, <1>a, CopyDoes DEF TypeOK, LocalsType
  <2>. QED  BY <1>4, <1>a, <1>b, <1>c, <2>1, CopyDoes, SeenKept
<1>5. CASE RemoveCommitted \/ RenamePending
  <2>1. \A p \in Packages : p # pkg => tx'[p] = tx[p]
    BY <1>5, <1>a, CommitDoes DEF TypeOK, DiskType
  <2>2. installed > 0
    BY <1>5, CommitDoes DEF Outcome, Late
  <2>. QED  BY <1>5, <1>b, <1>c, <2>1, <2>2, CommitDoes, SeenKept
<1>6. CASE ArchiveLog \/ AppendIndex
  <2>1. \A p \in Packages : \A id \in 1 .. next[p] - 1 : archive'[p][id] = archive[p][id]
    <3>1. \A p \in Packages : next[p] \in 1 .. TxBound + 1
      BY <1>a DEF TypeOK, DiskType
    <3>. QED  BY <1>6, <1>a, <3>1, HistoryDoes, ConstantsAssumption
  <2>. QED  BY <1>6, <1>a, <1>b, <1>c, <2>1, HistoryDoes, SeenKept
<1>7. CASE WriteCounter
  <2>1. /\ pc = "counter" /\ pc' = "record" /\ next' = [next EXCEPT ![pkg] = j + 1]
        /\ UNCHANGED <<tx, archive, backup, pkg, op, installed, j, before>> /\ seen' = seen
    BY <1>7, <1>b, CounterDoes
  <2>2. installed > 0 /\ op = "install" /\ j = next[pkg]
    BY <1>c, <2>1 DEF Outcome, Late, HistoryInv, Archiving
  <2>3. \A p \in Packages : next'[p] = IF p = pkg THEN j + 1 ELSE next[p]
    BY <1>a, <2>1 DEF TypeOK, DiskType
  <2>4. \A p \in Packages : p # pkg => seen.undo[p] = UndoOf(p)' /\ seen.touched[p] = TouchedOf(p)'
    BY <2>1, <2>3, UndoSame, TouchedSame DEF Seen
  <2>5. seen.touched[pkg] = [id \in 1 .. j - 1 |-> Dsts(LinesOf(archive[pkg][id]))']
    BY <1>a, <2>1, <2>2 DEF Seen, TouchedOf, Dsts, LinesOf
  <2>. QED  BY <2>1, <2>2, <2>3, <2>4, <2>5 DEF Seen
<1>8. CASE ReplayRestore \/ ReplayDelete
  <2>1. op # "install" /\ op' = op
    BY <1>8, <1>a, ReplayDoes DEF Succeeding
  <2>. QED  BY <1>8, <1>a, <1>b, <2>1, ReplayDoes, SeenKept
<1>9. CASE Record \/ ReplayDone
  <2>1. RNext
    BY <1>9, ReturnDoes DEF rvars, vars, locals
  <2>. QED  BY <1>9, <2>1, ReturnDoes, SeenAtRest DEF RNext, Observe
<1>10. ASSUME NEW m \in Manifests, Begin(m) PROVE Seen'
  <2>1. op # "install" /\ before' = seen.repo
    BY <1>10, BeginDoes DEF Succeeding, Seen
  <2>. QED  BY <1>10, <1>b, <2>1, BeginDoes, SeenAtRest
<1>11. CASE (\E p \in Packages : Rollback(p))
            \/ (\E p \in Packages, id \in 1 .. TxBound : RollbackTransaction(p, id))
  <2>1. op # "install"
    BY <1>11, StartDoes DEF Succeeding
  <2>. QED  BY <1>11, <1>b, <2>1, StartDoes, SeenAtRest
<1>12. CASE UNCHANGED vars
  <2>1. CASE UNCHANGED rvars
    BY <2>1, UndoSame, TouchedSame DEF rvars, vars, disk, locals, ghosts, Seen
  <2>2. CASE RNext /\ pc' # "idle"
    BY <1>12, <1>b, <2>2, UndoSame, TouchedSame DEF vars, disk, locals, ghosts, Seen
  <2>3. CASE RNext /\ pc' = "idle"
    <3>1. op' # "install"
      BY <1>12, <2>3 DEF vars, locals, Succeeding
    <3>. QED  BY <2>3, <3>1, SeenAtRest DEF RNext, Observe
  <2>. QED  BY <2>1, <2>2, <2>3
<1>. QED
  BY <1>1, <1>2, <1>3, <1>4, <1>5, <1>6, <1>7, <1>8, <1>9, <1>10, <1>11, <1>12, <1>a, StepKinds

\* What the undo of a package gives one of its files.
LEMMA UndoOfLine ==
    ASSUME NEW p, Replayable(LinesOf(tx[p]), p), NEW k \in DOMAIN LinesOf(tx[p])
    PROVE  LET l == LinesOf(tx[p])[k]
           IN  /\ l.dst \in DOMAIN UndoOf(p)
               /\ UndoOf(p)[l.dst] = IF l.op = "DELETE" THEN Absent
                                                        ELSE backup[p][BackupOf[l.dst]]
<1>. DEFINE l == LinesOf(tx[p])
            L == {l[n] : n \in DOMAIN l}
            x == CHOOSE e \in L : e.dst = l[k].dst
<1>1. x \in L /\ x.dst = l[k].dst
  <2>1. l[k] \in L
    OBVIOUS
  <2>. QED  BY <2>1
<1>2. PICK n \in DOMAIN l : x = l[n]
  BY <1>1
<1>3. x.op = l[k].op
  BY <1>1, <1>2 DEF Replayable
<1>4. l[k].dst \in Dsts(l)
  BY DEF Dsts
<1>5. UndoOf(p) = [d \in Dsts(l) |->
         IF (CHOOSE e \in L : e.dst = d).op = "DELETE" THEN Absent ELSE backup[p][BackupOf[d]]]
  BY DEF UndoOf
<1>. QED  BY <1>3, <1>4, <1>5

LEMMA ReplayingStep ==
    ASSUME Faultless, TypeOK, Succeeding, Newest, Seen, Replaying, [RNext]_rvars
    PROVE  Replaying'
<1>a. [Next]_vars /\ (pc' # "idle" => seen' = seen)
  BY DEF RNext, Observe, rvars
<1>1. CASE ReplayRestore \/ ReplayDelete
  <2>1. /\ pc = "replay" /\ j \in DOMAIN log /\ j' = j + 1 /\ log[j].dst \in Paths
        /\ file' = [file EXCEPT ![log[j].dst] = Restored(log[j], pkg)]
        /\ UNCHANGED <<backup, tx, archive, next, pkg, log>> /\ seen' = seen
    BY <1>1, <1>a, ReplayDoes
  <2>2. j \in Nat /\ DOMAIN log \subseteq Nat /\ file \in [Paths -> State] /\ pkg \in Packages
        /\ log \in Seq(Entry) /\ log # NoLog
    BY ConstantsAssumption DEF TypeOK, DiskType, LocalsType
  <2>3. UndoOf(pkg)' = UndoOf(pkg)
    BY <2>1, UndoSame
  <2>4. CASE /\ log = tx[pkg]
             /\ \A d \in Paths : file[d] = IF \E k \in DOMAIN log : k < j /\ log[k].dst = d
                                           THEN UndoOf(pkg)[d] ELSE seen.repo[d]
    <3>1. Restored(log[j], pkg) = UndoOf(pkg)[log[j].dst]
      <4>1. LinesOf(tx[pkg]) = log /\ Replayable(log, pkg)
        BY <2>2, <2>4 DEF LinesOf, Newest
      <4>2. log[j].op = "DELETE" \/ backup[pkg][BackupOf[log[j].dst]] # Absent
        <5>1. log[j] \in Entry
          BY <2>1, <2>2
        <5>. QED  BY <2>1, <4>1, <5>1 DEF Replayable, Entry
      <4>. QED  BY <2>1, <4>1, <4>2, UndoOfLine DEF Restored
    <3>2. ASSUME NEW d \in Paths
          PROVE  file'[d] = IF \E k \in DOMAIN log : k < j + 1 /\ log[k].dst = d
                            THEN UndoOf(pkg)[d] ELSE seen.repo[d]
      <4>1. CASE d = log[j].dst
        <5>1. \E k \in DOMAIN log : k < j + 1 /\ log[k].dst = d
          BY <2>1, <2>2, <4>1
        <5>. QED  BY <2>1, <2>2, <3>1, <4>1, <5>1
      <4>2. CASE d # log[j].dst
        <5>1. (\E k \in DOMAIN log : k < j + 1 /\ log[k].dst = d)
                 <=> (\E k \in DOMAIN log : k < j /\ log[k].dst = d)
          BY <2>2, <4>2
        <5>. QED  BY <2>1, <2>2, <2>4, <4>2, <5>1
      <4>. QED  BY <4>1, <4>2
    <3>. QED  BY <2>1, <2>3, <2>4, <3>2 DEF Replaying
  <2>5. CASE /\ \E id \in 1 .. next[pkg] - 2 : log = archive[pkg][id]
             /\ \A d \in Paths : ~Named(log, d) => file[d] = seen.repo[d]
    BY <2>1, <2>2, <2>5 DEF Replaying, Named
  <2>. QED  BY <2>1, <2>4, <2>5 DEF Replaying
<1>2. CASE (\E p \in Packages : Rollback(p))
           \/ (\E p \in Packages, id \in 1 .. TxBound : RollbackTransaction(p, id))
  <2>1. /\ pc = "idle" /\ pc' = "replay" /\ j' = 1 /\ pkg' \in Packages
        /\ \/ log' = tx[pkg']
           \/ \E id \in 1 .. TxBound : log' = archive[pkg'][id] /\ log' # NoLog
        /\ UNCHANGED <<file, backup, tx, archive, next>> /\ seen' = seen
    BY <1>2, <1>a, StartDoes
  <2>2. \A d \in Paths : file[d] = seen.repo[d]
    BY <2>1 DEF Seen
  <2>3. CASE log' = tx[pkg']
    <3>1. TypeOK'
      BY <1>a, TypeNext
    <3>2. ~(\E k \in DOMAIN log' : k < 1)
      BY <3>1 DEF TypeOK, LocalsType
    <3>. QED  BY <2>1, <2>2, <2>3, <3>2 DEF Replaying
  <2>4. ASSUME NEW id \in 1 .. TxBound, log' = archive[pkg'][id], log' # NoLog, log' # tx[pkg']
        PROVE  Replaying'
    <3>1. next[pkg'] \in Nat
      BY <2>1 DEF TypeOK, DiskType
    <3>2. id < next[pkg']
      BY <2>1, <2>4, <3>1, ConstantsAssumption DEF Newest
    <3>3. id # next[pkg'] - 1
      BY <2>1, <2>4, <3>1, <3>2 DEF Newest, Swapping
    <3>4. id \in 1 .. next[pkg'] - 2
      BY <3>1, <3>2, <3>3
    <3>. QED  BY <2>1, <2>2, <2>4, <3>4 DEF Replaying
  <2>. QED  BY <2>1, <2>3, <2>4
<1>3. CASE UNCHANGED vars
  <2>1. pc' = "replay" => seen' = seen /\ UndoOf(pkg)' = UndoOf(pkg)
    BY <1>3, <1>a, UndoSame DEF vars, disk, locals
  <2>. QED  BY <1>3, <2>1 DEF Replaying, vars, disk, locals, Named
<1>4. CASE pc' # "replay"
  BY <1>4 DEF Replaying
<1>5. ~(ReplayRestore \/ ReplayDelete) /\ pc' = "replay" =>
         \/ (\E p \in Packages : Rollback(p))
         \/ (\E p \in Packages, id \in 1 .. TxBound : RollbackTransaction(p, id))
         \/ UNCHANGED vars
  BY <1>a, StepKinds, LooksOnly, BackUpDoes, ReturnDoes, BeginDoes
  DEF Journal, CopyPayload, RemoveCommitted, RenamePending, ArchiveLog, AppendIndex,
      WriteCounter, Goto, Fail
<1>. QED  BY <1>1, <1>2, <1>3, <1>4, <1>5

LEMMA RecoveryInit == RInit => RecoveryInv
<1>. SUFFICES ASSUME RInit PROVE RecoveryInv
  OBVIOUS
<1>1. Init /\ pc = "idle" /\ op = "none" /\ seen = Store
  BY DEF RInit, Init
<1>2. PlacedInv /\ HistoryInv /\ Outcome /\ HandedOut /\ Succeeding
  BY <1>1, PlacedInit, HistoryInit, OutcomeInit, SucceedingInit DEF HandedOut
<1>3. Complete /\ Exact /\ Replaying
  BY <1>1, ConstantsAssumption DEF Init, Complete, Exact, Replaying
<1>4. Newest
  <2>1. ASSUME NEW p \in Packages
        PROVE  tx[p] = NoLog /\ next[p] = 1 /\ \A id \in 1 .. TxBound : archive[p][id] = NoLog
    BY <1>1 DEF Init
  <2>2. ASSUME NEW p \in Packages PROVE Replayable(LinesOf(tx[p]), p)
    BY <2>1 DEF Replayable, LinesOf
  <2>3. ASSUME NEW p \in Packages
        PROVE  ~(next[p] > 1) /\ \A id \in next[p] .. TxBound : archive[p][id] = NoLog
    BY <2>1
  <2>. QED  BY <2>2, <2>3 DEF Newest
<1>5. Seen
  <2>1. /\ seen.repo = file /\ seen.undo = [p \in Packages |-> UndoOf(p)]
        /\ seen.touched = [p \in Packages |-> TouchedOf(p)]
    BY <1>1 DEF Store, TouchedOf
  <2>. QED  BY <1>1, <2>1 DEF Seen, Replacing, Counted
<1>. QED  BY <1>2, <1>3, <1>4, <1>5 DEF RecoveryInv, StoreInv

LEMMA RecoveryStep ==
    ASSUME Faultless, DistinctBackups, RecoveryInv, [RNext]_rvars
    PROVE  RecoveryInv'
<1>1. /\ [Next]_vars /\ JournalInv /\ TypeOK /\ HistoryInv /\ Outcome /\ HandedOut /\ Succeeding
      /\ Complete /\ Exact /\ Newest /\ Seen /\ Replaying
  BY InstallerKept DEF RecoveryInv, StoreInv
<1>2. StoreInv'
  BY <1>1, CompleteStep, ExactStep, NewestStep, SeenStep, ReplayingStep DEF StoreInv
<1>. QED  BY <1>2, InstallerKept DEF RecoveryInv

-----------------------------------------------------------------------------
(* Every step of the installer is a step of the atomic store, or none *)

\* The end of a call is where its effect shows.
LEMMA ShownAt ==
    ASSUME Faultless, RecoveryInv, RNext, pc' = "idle"
    PROVE  /\ Record \/ ReplayDone
           /\ seen'.repo = file /\ seen'.undo = [p \in Packages |-> UndoOf(p)]
           /\ seen'.touched = [p \in Packages |-> TouchedOf(p)]
<1>1. Next /\ seen' = Store' /\ Succeeding /\ TypeOK
  BY DEF RNext, Observe, RecoveryInv, PlacedInv, JournalInv
<1>2. Record \/ ReplayDone
  BY <1>1, NothingFails
  DEF Next, Call, InstallStep, ReplayStep, SkipUnchanged, AtMapping, BackUp, NoBackup, Journal,
      CopyPayload, MappingsDone, NoOp, RemoveCommitted, RenamePending, ArchiveLog, AppendIndex,
      WriteCounter, ReplayRestore, ReplayDelete, Begin, Rollback, RollbackTransaction,
      StartReplay, Goto, Fail
<1>3. UNCHANGED <<file, backup, tx, archive, next>>
  BY <1>1, <1>2, ReturnDoes
<1>4. \A p \in Packages : UndoOf(p)' = UndoOf(p) /\ TouchedOf(p)' = TouchedOf(p)
  BY <1>3, UndoSame, TouchedSame
<1>5. /\ seen'.repo = file' /\ seen'.undo = [p \in Packages |-> UndoOf(p)']
      /\ seen'.touched = [p \in Packages |-> TouchedOf(p)']
  BY <1>1 DEF Store, TouchedOf
<1>. QED  BY <1>2, <1>3, <1>4, <1>5

\* What a manifest wants of each of its files, and what an install changes.
LEMMA WantedIs ==
    ASSUME NEW m, OwnBackups(m.files), NEW n \in DOMAIN m.files
    PROVE  Atomic!Wanted(m, m.files[n].dst) = m.files[n].new
<1>. DEFINE F == {m.files[k] : k \in DOMAIN m.files}
            x == CHOOSE e \in F : e.dst = m.files[n].dst
<1>1. x \in F /\ x.dst = m.files[n].dst
  <2>1. m.files[n] \in F
    OBVIOUS
  <2>. QED  BY <2>1
<1>2. PICK k \in DOMAIN m.files : x = m.files[k]
  BY <1>1
<1>3. k = n
  BY <1>1, <1>2 DEF OwnBackups
<1>4. Atomic!Wanted(m, m.files[n].dst) = x.new
  BY DEF Atomic!Wanted
<1>. QED  BY <1>2, <1>3, <1>4

\* A sequence with one element more.
LEMMA OneMore ==
    ASSUME NEW T, NEW n \in Nat, NEW g \in [1 .. n + 1 -> T]
    PROVE  g = Append([k \in 1 .. n |-> g[k]], g[n + 1])
<1>. DEFINE f == [k \in 1 .. n |-> g[k]]
<1>1. f \in Seq(T) /\ Len(f) = n /\ g \in Seq(T) /\ Len(g) = n + 1
  OBVIOUS
<1>. QED  BY <1>1

\* An install that has replaced its files is the atomic one.
LEMMA RecordsInstall ==
    ASSUME Faultless, DistinctBackups, RecoveryInv, RNext, Record, installed > 0,
           NEW m \in Manifests, pkg = m.id, files = m.files
    PROVE  Atomic!Install(m)
<1>1. /\ JournalInv /\ TypeOK /\ HistoryInv /\ Outcome /\ HandedOut /\ Succeeding /\ Placed
      /\ Complete /\ Exact /\ Newest /\ Seen
  BY DEF RecoveryInv, StoreInv, PlacedInv, JournalInv
<1>2. /\ pc = "record" /\ pc' = "idle" /\ op = "install" /\ ok = 1 /\ pkg \in Packages
      /\ seen.repo = before
  BY <1>1 DEF Record, Return, Succeeding, TypeOK, LocalsType, Seen
<1>3. /\ archive[pkg][j] = tx[pkg] /\ tx[pkg] # NoLog /\ LastLog = tx[pkg] /\ unfinished = "install"
      /\ LinesOf(tx[pkg]) = tx[pkg]
  BY <1>1, <1>2 DEF HandedOut, LastLog, LinesOf
<1>4. Undoes(tx[pkg], pkg, before) /\ Covers(tx[pkg], before) /\ OwnBackups(m.files)
  BY <1>1, <1>2, <1>3 DEF JournalInv, JournalCovers, Installing, DistinctBackups
<1>5. \A n \in DOMAIN files : file[files[n].dst] = files[n].new /\ files[n].dst \in Paths
  <2>1. files \in Seq(Mapping)
    BY <1>1 DEF TypeOK, LocalsType
  <2>2. \A n \in DOMAIN files : files[n] \in Mapping
    BY <2>1
  <2>. QED  BY <1>1, <1>2, <2>2 DEF Placed, AllOrNothing, Mapping
<1>6. /\ \A k \in DOMAIN tx[pkg] : \E n \in DOMAIN files :
            tx[pkg][k].dst = files[n].dst /\ before[files[n].dst] # files[n].new
      /\ DOMAIN tx[pkg] # {}
  BY <1>1, <1>2, <1>3 DEF Exact
<1>. DEFINE D == Dsts(tx[pkg])
<1>7. Atomic!Changed(m) = D
  <2>1. \A n \in DOMAIN files : Atomic!Wanted(m, files[n].dst) = files[n].new
    BY <1>4, WantedIs
  <2>2. ASSUME NEW d \in D PROVE d \in Atomic!Changed(m)
    <3>1. PICK k \in DOMAIN tx[pkg] : d = tx[pkg][k].dst
      BY DEF Dsts
    <3>2. PICK n \in DOMAIN files : d = files[n].dst /\ before[d] # files[n].new
      BY <1>6, <3>1
    <3>. QED  BY <1>2, <2>1, <3>2 DEF Atomic!Changed, Atomic!Targets
  <2>3. ASSUME NEW d \in Atomic!Changed(m) PROVE d \in D
    <3>1. PICK n \in DOMAIN files : d = files[n].dst /\ before[d] # files[n].new
      BY <1>2, <2>1 DEF Atomic!Changed, Atomic!Targets
    <3>2. d \in Paths /\ file[d] # before[d]
      BY <1>5, <3>1
    <3>. QED  BY <1>4, <3>2 DEF Covers, Named, Dsts
  <2>. QED  BY <2>2, <2>3
<1>8. D # {}
  BY <1>6 DEF Dsts
<1>9. seen'.repo = [d \in Paths |-> IF d \in D THEN Atomic!Wanted(m, d) ELSE seen.repo[d]]
  <2>1. seen'.repo = file /\ file \in [Paths -> State]
    BY <1>1, <1>2, ShownAt DEF TypeOK, DiskType
  <2>2. ASSUME NEW d \in Paths
        PROVE  file[d] = IF d \in D THEN Atomic!Wanted(m, d) ELSE before[d]
    <3>1. CASE d \in D
      <4>1. PICK n \in DOMAIN files : d = files[n].dst
        BY <1>6, <3>1 DEF Dsts
      <4>. QED  BY <1>4, <1>5, <3>1, <4>1, WantedIs
    <3>2. CASE d \notin D
      BY <1>4, <3>2 DEF Covers, Named, Dsts
    <3>. QED  BY <3>1, <3>2
  <2>. QED  BY <1>2, <2>1, <2>2
<1>10. UndoOf(pkg) = [d \in D |-> before[d]]
  <2>1. UndoOf(pkg) = [d \in D |-> UndoOf(pkg)[d]]
    BY <1>3 DEF UndoOf
  <2>2. ASSUME NEW d \in D PROVE UndoOf(pkg)[d] = before[d]
    <3>1. PICK k \in DOMAIN tx[pkg] : d = tx[pkg][k].dst
      BY DEF Dsts
    <3>2. tx[pkg] \in Seq(Entry)
      BY <1>1, <1>2, <1>3 DEF TypeOK, DiskType
    <3>3. tx[pkg][k].op \in {"RESTORE", "DELETE"}
      <4>1. tx[pkg][k] \in Entry
        BY <3>1, <3>2
      <4>. QED  BY <4>1 DEF Entry
    <3>4. UndoOf(pkg)[d] = IF tx[pkg][k].op = "DELETE" THEN Absent ELSE backup[pkg][BackupOf[d]]
      BY <1>1, <1>2, <1>3, <3>1, UndoOfLine DEF Newest
    <3>. QED  BY <1>4, <3>1, <3>3, <3>4 DEF Undoes
  <2>. QED  BY <2>1, <2>2
<1>11. seen'.undo = [seen.undo EXCEPT ![m.id] = [d \in D |-> seen.repo[d]]]
  <2>1. seen'.undo = [p \in Packages |-> UndoOf(p)] /\ seen.undo = [p \in Packages |-> seen.undo[p]]
    BY <1>1, <1>2, ShownAt DEF Seen
  <2>2. \A p \in Packages : p # pkg => seen.undo[p] = UndoOf(p)
    BY <1>1 DEF Seen
  <2>. QED  BY <1>2, <1>10, <2>1, <2>2
<1>12. seen'.touched = [seen.touched EXCEPT ![m.id] = Append(seen.touched[m.id], D)]
  <2>1. /\ seen'.touched = [p \in Packages |-> TouchedOf(p)]
        /\ seen.touched = [p \in Packages |-> seen.touched[p]]
    BY <1>1, <1>2, ShownAt DEF Seen
  <2>2. Counted
    BY <1>2 DEF Counted
  <2>3. \A p \in Packages : p # pkg => seen.touched[p] = TouchedOf(p)
    BY <1>1 DEF Seen
  <2>4. /\ next[pkg] = j + 1 /\ j \in Nat /\ j >= 1
        /\ seen.touched[pkg] = [id \in 1 .. j - 1 |-> Dsts(LinesOf(archive[pkg][id]))]
    BY <1>1, <1>2, <2>2 DEF Seen, TypeOK, LocalsType
  <2>5. TouchedOf(pkg) = [id \in 1 .. j |-> Dsts(LinesOf(archive[pkg][id]))]
    BY <2>4 DEF TouchedOf
  <2>6. TouchedOf(pkg) = Append(seen.touched[pkg], D)
    <3>. DEFINE T == {Dsts(LinesOf(archive[pkg][id])) : id \in 1 .. j}
                n == j - 1
                g == TouchedOf(pkg)
    <3>1. n \in Nat /\ n + 1 = j /\ g \in [1 .. n + 1 -> T]
      BY <2>4, <2>5
    <3>2. g = Append([k \in 1 .. n |-> g[k]], g[n + 1])
      <4>. HIDE DEF n, g, T
      <4>. QED  BY <3>1, OneMore
    <3>3. [k \in 1 .. n |-> g[k]] = seen.touched[pkg] /\ g[n + 1] = D
      BY <1>3, <2>4, <2>5
    <3>. QED  BY <3>2, <3>3
  <2>. QED  BY <1>2, <2>1, <2>3, <2>6
<1>. QED  BY <1>7, <1>8, <1>9, <1>11, <1>12 DEF Atomic!Install

\* An install that has replaced nothing shows nothing.
LEMMA RecordsNothing ==
    ASSUME Faultless, RecoveryInv, RNext, Record, installed = 0
    PROVE  UNCHANGED <<seen.repo, seen.undo, seen.touched>>
<1>1. Outcome /\ Succeeding /\ Seen /\ pc = "record" /\ pc' = "idle"
  BY DEF RecoveryInv, StoreInv, Record, Return
<1>2. op = "install" /\ ok = 1 /\ file = before
  BY <1>1 DEF Succeeding, Outcome
<1>3. seen.repo = file
  BY <1>1, <1>2 DEF Seen
<1>4. \A p \in Packages : seen.undo[p] = UndoOf(p) /\ seen.touched[p] = TouchedOf(p)
  BY <1>1 DEF Seen, Replacing, Counted
<1>. QED  BY <1>1, <1>3, <1>4, ShownAt DEF Seen

\* A replay that has come to the end of its log is a recovery of the atomic
\* store: of the newest transaction, or of an older one.
LEMMA ReplayRecovers ==
    ASSUME Faultless, RecoveryInv, RNext, ReplayDone
    PROVE  Atomic!Next
<1>1. /\ TypeOK /\ Succeeding /\ Complete /\ Newest /\ Seen /\ Replaying
      /\ pc = "replay" /\ pc' = "idle" /\ op # "install" /\ ~LineLeft /\ pkg \in Packages
  BY ReturnDoes DEF RecoveryInv, StoreInv, PlacedInv, JournalInv, TypeOK, LocalsType, ReplayDone
<1>2. /\ seen'.repo = file
      /\ seen'.undo = [p \in Packages |-> UndoOf(p)] /\ seen'.undo = seen.undo
      /\ seen'.touched = [p \in Packages |-> TouchedOf(p)] /\ seen'.touched = seen.touched
  BY <1>1, ShownAt, NothingReplaced DEF Seen
<1>3. log \in Seq(Entry) /\ LinesOf(log) = log /\ (\A k \in DOMAIN log : k < j)
  BY <1>1, ConstantsAssumption DEF TypeOK, LocalsType, LinesOf, LineLeft
<1>4. CASE /\ log = tx[pkg]
           /\ \A d \in Paths : file[d] = IF \E k \in DOMAIN log : k < j /\ log[k].dst = d
                                         THEN UndoOf(pkg)[d] ELSE seen.repo[d]
  <2>1. DOMAIN UndoOf(pkg) = Dsts(log) /\ seen.undo[pkg] = UndoOf(pkg)
    <3>1. LinesOf(tx[pkg]) = log
      BY <1>3, <1>4
    <3>2. DOMAIN UndoOf(pkg) = Dsts(LinesOf(tx[pkg]))
      BY DEF UndoOf
    <3>. QED  BY <1>1, <1>2, <3>1, <3>2
  <2>2. ASSUME NEW d \in Paths
        PROVE  file[d] = IF d \in DOMAIN seen.undo[pkg] THEN seen.undo[pkg][d] ELSE seen.repo[d]
    BY <1>3, <1>4, <2>1 DEF Dsts
  <2>3. file = [d \in Paths |-> IF d \in DOMAIN seen.undo[pkg] THEN seen.undo[pkg][d]
                                                               ELSE seen.repo[d]]
    BY <1>1, <2>2 DEF TypeOK, DiskType
  <2>4. Atomic!Rollback(pkg)
    BY <1>2, <2>3 DEF Atomic!Rollback
  <2>. QED  BY <1>1, <2>4 DEF Atomic!Next
<1>5. ASSUME NEW id \in 1 .. next[pkg] - 2, log = archive[pkg][id],
             \A d \in Paths : ~Named(log, d) => file[d] = seen.repo[d]
      PROVE  Atomic!Next
  <2>1. next[pkg] \in Nat
    BY <1>1 DEF TypeOK, DiskType
  <2>2. seen.touched[pkg] = [n \in 1 .. next[pkg] - 1 |-> Dsts(LinesOf(archive[pkg][n]))]
    BY <1>1, <1>2 DEF TouchedOf
  <2>3. id \in DOMAIN seen.touched[pkg] /\ id < Len(seen.touched[pkg])
    <3>. DEFINE T == {Dsts(LinesOf(archive[pkg][n])) : n \in 1 .. next[pkg] - 1}
    <3>1. seen.touched[pkg] \in [1 .. next[pkg] - 1 -> T] /\ next[pkg] - 1 \in Nat
      BY <1>5, <2>1, <2>2
    <3>2. Len(seen.touched[pkg]) = next[pkg] - 1
      BY <3>1
    <3>. QED  BY <1>5, <2>1, <2>2, <3>2
  <2>4. seen.touched[pkg][id] = Dsts(log)
    BY <1>3, <1>5, <2>2, <2>3
  <2>5. Atomic!RollbackTransaction(pkg, id)
    BY <1>1, <1>2, <1>5, <2>3, <2>4 DEF Atomic!RollbackTransaction, Complete, Dsts, Named
  <2>. QED  BY <1>1, <2>3, <2>5 DEF Atomic!Next
<1>. QED  BY <1>1, <1>4, <1>5 DEF Replaying

LEMMA AtomicStep ==
    ASSUME Faultless, DistinctBackups, RecoveryInv, [RNext]_rvars
    PROVE  [Atomic!Next]_<<seen.repo, seen.undo, seen.touched>>
<1>1. CASE UNCHANGED rvars \/ pc' # "idle"
  <2>1. seen' = seen
    BY <1>1 DEF RNext, Observe, rvars
  <2>. QED  BY <2>1
<1>2. CASE RNext /\ pc' = "idle"
  <2>1. CASE ReplayDone
    BY <1>2, <2>1, ReplayRecovers
  <2>2. CASE Record
    <3>1. op = "install" /\ installed \in Nat
      BY <2>2 DEF Record, RecoveryInv, Succeeding, PlacedInv, JournalInv, TypeOK, LocalsType
    <3>2. CASE installed = 0
      BY <1>2, <2>2, <3>2, RecordsNothing
    <3>3. CASE installed > 0
      <4>1. PICK m \in Manifests : pkg = m.id /\ files = m.files
        BY <3>1 DEF RecoveryInv, Succeeding
      <4>2. Atomic!Install(m)
        BY <1>2, <2>2, <3>3, <4>1, RecordsInstall
      <4>. QED  BY <4>2 DEF Atomic!Next
    <3>. QED  BY <3>1, <3>2, <3>3
  <2>. QED  BY <1>2, <2>1, <2>2, ShownAt
<1>. QED  BY <1>1, <1>2

LEMMA AtomicInit == RInit => Atomic!Init
<1>. SUFFICES ASSUME RInit PROVE Atomic!Init
  OBVIOUS
<1>1. /\ seen.repo = file /\ seen.undo = [p \in Packages |-> UndoOf(p)]
      /\ seen.touched = [p \in Packages |-> TouchedOf(p)] /\ Init
  BY DEF RInit, Store, TouchedOf
<1>2. ASSUME NEW p \in Packages PROVE UndoOf(p) = <<>> /\ TouchedOf(p) = <<>>
  <2>1. LinesOf(tx[p]) = <<>> /\ next[p] = 1
    BY <1>1 DEF Init, LinesOf
  <2>2. Dsts(<<>>) = {}
    BY DEF Dsts
  <2>3. UndoOf(p) = <<>>
    BY <2>1, <2>2 DEF UndoOf
  <2>4. TouchedOf(p) = <<>>
    BY <2>1 DEF TouchedOf
  <2>. QED  BY <2>3, <2>4
<1>. QED  BY <1>1, <1>2 DEF Init, Atomic!Init

\* Unless a file operation fails, the installer, which replaces one file after
\* another and may be looked at only between calls, is the atomic store: each
\* call is one step of it or none, and a rollback puts back exactly what the
\* last install replaced, whatever other packages and recoveries did between.
THEOREM InstallerIsAtomicStore ==
    ASSUME Faultless, DistinctBackups
    PROVE  RSpec => ImplementsAtomicStore
<1>1. RecoveryInv /\ [RNext]_rvars => RecoveryInv'
  BY RecoveryStep
<1>2. RecoveryInv /\ [RNext]_rvars => [Atomic!Next]_<<seen.repo, seen.undo, seen.touched>>
  BY AtomicStep
<1>. QED
  BY <1>1, <1>2, RecoveryInit, AtomicInit, PTL DEF RSpec, ImplementsAtomicStore, Atomic!Spec
=============================================================================
