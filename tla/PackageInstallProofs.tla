------------------------ MODULE PackageInstallProofs ------------------------
(***************************************************************************)
(* Theorems about PackageInstall, for every value of its constants: any    *)
(* packages, manifests, trees, bounds and faults.                          *)
(***************************************************************************)
EXTENDS PackageInstall, TLAPS

USE ConstantsAssumption

-----------------------------------------------------------------------------
(* What the helpers return *)

\* A copy leaves its target unchanged, cut short or equal to its source; it
\* cannot succeed without a source.
LEMMA CopyOutcomesType ==
    ASSUME NEW f, NEW source \in State, NEW target \in State,
           NEW r \in CopyOutcomes(f, source, target)
    PROVE  r.res \in {"ok", "failed"} /\ r.is \in State
<1>1. CASE source = Absent
  <2>1. r = [res |-> "failed", is |-> target]
    BY <1>1 DEF CopyOutcomes
  <2>. QED  BY <2>1
<1>2. CASE source # Absent
  <2>. Partial \in State
    BY DEF State
  <2>1. \/ r = [res |-> "ok", is |-> source]
        \/ r = [res |-> "failed", is |-> target]
        \/ r = [res |-> "failed", is |-> Partial]
        \/ r = [res |-> "ok", is |-> Partial]
    BY <1>2 DEF CopyOutcomes, Unflushed
  <2>. QED  BY <2>1
<1>. QED  BY <1>1, <1>2

\* The lines of a log that is not there are none.
LEMMA LinesOfType ==
    ASSUME NEW l \in Seq(Entry) \cup {NoLog}
    PROVE  LinesOf(l) \in Seq(Entry)
<1>1. CASE l = NoLog
  BY <1>1 DEF LinesOf
<1>2. CASE l # NoLog
  BY <1>2 DEF LinesOf
<1>. QED  BY <1>1, <1>2

\* An append leaves a log, or no log if there was none.
LEMMA AppendOutcomesType ==
    ASSUME NEW f, NEW l \in Seq(Entry) \cup {NoLog}, NEW e \in Entry,
           NEW r \in AppendOutcomes(f, l, e)
    PROVE  r.res \in {"ok", "failed"} /\ r.is \in Seq(Entry) \cup {NoLog}
<1>1. LinesOf(l) \in Seq(Entry)
  BY LinesOfType
<1>2. Append(LinesOf(l), e) \in Seq(Entry)
  BY <1>1
<1>3. \/ r = [res |-> "ok", is |-> Append(LinesOf(l), e)]
      \/ r = [res |-> "failed", is |-> l]
      \/ r = [res |-> "ok", is |-> LinesOf(l)]
  BY DEF AppendOutcomes, Unflushed
<1>. QED  BY <1>1, <1>2, <1>3, SMTT(30)

-----------------------------------------------------------------------------
(* Type correctness *)

\* Reading the counter yields an id that the history has room for.
LEMMA CounterReadsType ==
    ASSUME TypeOK, pc = "archive", NEW id \in CounterReads(pkg)
    PROVE  id \in 1 .. TxBound
BY DEF TypeOK, InRange, DiskType, LocalsType, CounterReads

\* The manifest loop indexes a mapping, the replay loop a line of its log.
LEMMA MappingInRange ==
    ASSUME TypeOK, i <= Len(files)
    PROVE  files[i] \in Mapping /\ dst \in Paths /\ files[i].new \in State
<1>1. i \in 1 .. Len(files) /\ files \in Seq(Mapping)
  BY DEF TypeOK, LocalsType
<1>2. files[i] \in Mapping
  BY <1>1
<1>. QED  BY <1>2 DEF Mapping, dst, State

LEMMA LineInRange ==
    ASSUME TypeOK, LineLeft
    PROVE  log[j] \in Entry /\ log[j].dst \in Paths
<1>1. j \in 1 .. Len(log) /\ log \in Seq(Entry)
  BY DEF TypeOK, LocalsType, LineLeft
<1>2. log[j] \in Entry
  BY <1>1
<1>. QED  BY <1>2 DEF Entry

LEMMA TypeInit == Init => TypeOK
<1>. SUFFICES ASSUME Init PROVE TypeOK
  OBVIOUS
<1>1. (CHOOSE p \in Packages : TRUE) \in Packages
  OBVIOUS
<1>. QED  BY <1>1 DEF Init, TypeOK, InRange, DiskType, LocalsType, State

LEMMA TypeNext == TypeOK /\ [Next]_vars => TypeOK'
<1>. SUFFICES ASSUME TypeOK, [Next]_vars PROVE TypeOK'
  OBVIOUS
<1>. USE DEF TypeOK, InRange, DiskType, LocalsType, Outcomes, Goto, Fail
<1>1. ASSUME NEW m \in Manifests, Begin(m) PROVE TypeOK'
  BY <1>1, SMTT(30) DEF Begin
<1>2. CASE MkdirFails
  BY <1>2 DEF MkdirFails, AtMapping, disk, ghosts
<1>3. CASE SkipUnchanged
  <2>1. DiskType'
    BY <1>3 DEF SkipUnchanged, AtMapping, disk, ghosts
  <2>2. LocalsType'
    BY <1>3 DEF SkipUnchanged, AtMapping, disk, ghosts
  <2>3. InRange'
    BY <1>3 DEF SkipUnchanged, AtMapping, disk, ghosts
  <2>. QED  BY <2>1, <2>2, <2>3
<1>4. CASE BackUp
  <2>1. i <= Len(files) /\ dst \in Paths
    BY <1>4, MappingInRange DEF BackUp, AtMapping
  <2>2. PICK r \in CopyOutcomes("backup", file[dst], backup[pkg][BackupOf[dst]]) :
           /\ backup' = [backup EXCEPT ![pkg][BackupOf[dst]] = r.is]
           /\ IF r.res = "ok" THEN Goto("journal") ELSE Fail("failed")
    BY <1>4 DEF BackUp
  <2>3. r.is \in State
    BY <2>1, <2>2, CopyOutcomesType
  <2>4. UNCHANGED <<file, pending, tx, archive, index, next, registry, ghosts>>
    BY <1>4 DEF BackUp
  <2>5. backup' \in [Packages -> [Backups -> State]]
    BY <2>1, <2>2, <2>3
  <2>6. DiskType'
    BY <2>4, <2>5
  <2>7. LocalsType' /\ InRange'
    BY <1>4, <2>1, <2>2, <2>4 DEF ghosts, BackUp, AtMapping
  <2>. QED  BY <2>6, <2>7
<1>5. CASE NoBackup
  BY <1>5 DEF NoBackup, AtMapping, disk, ghosts
<1>6. CASE Journal
  <2>1. i <= Len(files) /\ dst \in Paths
    BY <1>6, MappingInRange DEF Journal
  <2>2. JournalLine \in Entry
    BY <2>1 DEF JournalLine, Entry
  <2>3. PICK r \in AppendOutcomes("journal", pending[pkg], JournalLine) :
           /\ pending' = [pending EXCEPT ![pkg] = r.is]
           /\ IF r.res = "ok" THEN Goto("copy") ELSE Fail("failed")
    BY <1>6 DEF Journal
  <2>4. r.is \in Seq(Entry) \cup {NoLog}
    BY <2>2, <2>3, AppendOutcomesType
  <2>5. UNCHANGED <<file, backup, tx, archive, index, next, registry, ghosts>>
    BY <1>6 DEF Journal
  <2>6. pending' \in [Packages -> Seq(Entry) \cup {NoLog}]
    BY <2>3, <2>4
  <2>7. DiskType'
    BY <2>5, <2>6
  <2>8. LocalsType' /\ InRange'
    BY <1>6, <2>1, <2>3, <2>5 DEF ghosts, Journal
  <2>. QED  BY <2>7, <2>8
<1>7. CASE CopyPayload
  <2>1. i <= Len(files) /\ dst \in Paths /\ files[i].new \in State
    BY <1>7, MappingInRange DEF CopyPayload
  <2>2. PICK r \in CopyOutcomes("copy", files[i].new, file[dst]) :
           /\ file' = [file EXCEPT ![dst] = r.is]
           /\ IF r.res = "ok"
              THEN /\ pc' = "map" /\ i' = i + 1 /\ installed' = installed + 1
                   /\ UNCHANGED <<op, pkg, files, ok, log, j>>
              ELSE Fail("failed")
    BY <1>7 DEF CopyPayload
  <2>3. r.is \in State
    BY <2>1, <2>2, CopyOutcomesType
  <2>4. UNCHANGED <<backup, pending, tx, archive, index, next, registry, ghosts>>
    BY <1>7 DEF CopyPayload
  <2>5. file' \in [Paths -> State]
    BY <2>2, <2>3
  <2>6. DiskType'
    BY <2>4, <2>5
  <2>7. LocalsType' /\ InRange'
    <3>1. CASE r.res = "ok"
      BY <1>7, <2>2, <2>4, <3>1 DEF ghosts, CopyPayload
    <3>2. CASE r.res # "ok"
      BY <1>7, <2>2, <2>4, <3>2 DEF ghosts, CopyPayload
    <3>. QED  BY <3>1, <3>2
  <2>. QED  BY <2>6, <2>7
<1>8. CASE MappingsDone
  BY <1>8 DEF MappingsDone, disk, ghosts
<1>9. CASE NoOp
  <2>1. DiskType'
    BY <1>9 DEF NoOp
  <2>2. LocalsType'
    BY <1>9 DEF NoOp
  <2>3. InRange'
    BY <1>9 DEF NoOp
  <2>. QED  BY <2>1, <2>2, <2>3
<1>10. CASE RemoveCommitted
  <2>1. DiskType'
    BY <1>10, SMTT(30) DEF RemoveCommitted, LinesOf, ghosts
  <2>2. LocalsType'
    BY <1>10 DEF RemoveCommitted, LinesOf, ghosts
  <2>3. InRange'
    BY <1>10 DEF RemoveCommitted, LinesOf, ghosts
  <2>. QED  BY <2>1, <2>2, <2>3
<1>11. CASE RenamePending
  <2>1. pending[pkg] \in Seq(Entry) \cup {NoLog}
    OBVIOUS
  <2>2. pending' \in [Packages -> Seq(Entry) \cup {NoLog}]
    BY <1>11 DEF RenamePending
  <2>3. tx' \in [Packages -> Seq(Entry) \cup {NoLog}]
    BY <1>11, <2>1 DEF RenamePending
  <2>4. DiskType'
    BY <1>11, <2>2, <2>3 DEF RenamePending
  <2>5. LocalsType' /\ InRange'
    BY <1>11 DEF RenamePending, ghosts
  <2>. QED  BY <2>4, <2>5
<1>12. CASE ArchiveLog
  <2>1. PICK id \in CounterReads(pkg), copied \in Outcomes("archive") :
          /\ \E l \in IF copied = "ok" THEN {tx[pkg]} \cup Unflushed({<<>>})
                               ELSE {archive[pkg][id], <<>>} :
                archive' = [archive EXCEPT ![pkg][id] = l]
          /\ j' = id
          /\ IF copied = "ok" THEN pc' = "index" /\ ok' = ok
                       ELSE pc' = "record" /\ ok' = 0
    BY <1>12 DEF ArchiveLog
  <2>2. id \in 1 .. TxBound
    BY <1>12, CounterReadsType DEF ArchiveLog
  <2>3. PICK l \in Seq(Entry) \cup {NoLog} : archive' = [archive EXCEPT ![pkg][id] = l]
    <3>1. tx[pkg] \in Seq(Entry) \cup {NoLog} /\ <<>> \in Seq(Entry)
      OBVIOUS
    <3>2. archive[pkg][id] \in Seq(Entry) \cup {NoLog}
      BY <2>2
    <3>. QED  BY <2>1, <3>1, <3>2 DEF Unflushed
  <2>4. archive' \in [Packages -> [1 .. TxBound -> Seq(Entry) \cup {NoLog}]]
    BY <2>2, <2>3
  <2>5. UNCHANGED <<file, backup, pending, tx, index, next, registry,
                    op, pkg, files, i, installed, log, ghosts>>
    BY <1>12 DEF ArchiveLog
  <2>6. DiskType'
    BY <2>4, <2>5
  <2>7. LocalsType' /\ InRange'
    BY <2>1, <2>2, <2>5 DEF ghosts
  <2>. QED  BY <2>6, <2>7
<1>13. CASE AppendIndex
  <2>1. index[pkg] \in Seq(1 .. TxBound) /\ Append(index[pkg], j) \in Seq(1 .. TxBound)
    BY <1>13 DEF AppendIndex
  <2>2. PICK appended \in Outcomes("index") :
          \E ids \in IF appended = "ok" THEN {Append(index[pkg], j)} \cup Unflushed({index[pkg]})
                      ELSE {index[pkg]} :
             /\ index' = [index EXCEPT ![pkg] = ids]
             /\ IF appended = "ok" THEN Goto("counter") ELSE Fail("record")
    BY <1>13 DEF AppendIndex
  <2>3. PICK ids \in Seq(1 .. TxBound) :
             /\ index' = [index EXCEPT ![pkg] = ids]
             /\ IF appended = "ok" THEN Goto("counter") ELSE Fail("record")
    BY <2>1, <2>2 DEF Unflushed
  <2>4. index' \in [Packages -> Seq(1 .. TxBound)]
    BY <2>3
  <2>5. UNCHANGED <<file, backup, pending, tx, archive, next, registry, ghosts>>
    BY <1>13 DEF AppendIndex
  <2>6. DiskType'
    BY <2>4, <2>5
  <2>7. LocalsType' /\ InRange'
    BY <1>13, <2>3, <2>5 DEF ghosts, AppendIndex
  <2>. QED  BY <2>6, <2>7
<1>14. CASE WriteCounter
  <2>1. DiskType'
    BY <1>14, SMTT(30) DEF WriteCounter, IdAfter, Unflushed, ghosts
  <2>2. LocalsType'
    BY <1>14 DEF WriteCounter, IdAfter, Unflushed, ghosts
  <2>3. InRange'
    BY <1>14 DEF WriteCounter, IdAfter, Unflushed, ghosts
  <2>. QED  BY <2>1, <2>2, <2>3
<1>15. CASE StartUndo
  <2>1. DiskType'
    BY <1>15 DEF StartUndo, LinesOf, disk, ghosts
  <2>2. LocalsType'
    BY <1>15 DEF StartUndo, LinesOf, disk, ghosts
  <2>3. InRange'
    BY <1>15 DEF StartUndo, LinesOf, disk, ghosts
  <2>. QED  BY <2>1, <2>2, <2>3
<1>16. CASE MarkRolledBack
  <2>1. DiskType'
    BY <1>16 DEF MarkRolledBack, LinesOf, ghosts
  <2>2. LocalsType'
    BY <1>16 DEF MarkRolledBack, LinesOf, ghosts
  <2>3. InRange'
    BY <1>16 DEF MarkRolledBack, LinesOf, ghosts
  <2>. QED  BY <2>1, <2>2, <2>3
<1>17. CASE Record
  <2>1. DiskType'
    BY <1>17 DEF Record, Return, Unflushed
  <2>2. LocalsType'
    BY <1>17 DEF Record, Return, Unflushed
  <2>3. InRange'
    BY <1>17 DEF Record, Return, Unflushed
  <2>. QED  BY <2>1, <2>2, <2>3
<1>18. CASE ReplayRestore
  <2>. DEFINE d == log[j].dst
  <2>1. d \in Paths
    BY <1>18, LineInRange DEF ReplayRestore
  <2>2. PICK r \in CopyOutcomes("restore", backup[pkg][BackupOf[d]], file[d]) :
              /\ file' = [file EXCEPT ![d] = r.is]
              /\ ok' = IF r.res = "ok" THEN ok ELSE 0
    BY <1>18 DEF ReplayRestore
  <2>3. r.is \in State
    BY <2>1, <2>2, CopyOutcomesType
  <2>4. file' \in [Paths -> State]
    BY <2>1, <2>2, <2>3
  <2>5. DiskType'
    BY <1>18, <2>4 DEF ReplayRestore
  <2>6. LocalsType' /\ InRange'
    BY <1>18, <2>2 DEF ReplayRestore, NextLine, ghosts
  <2>. QED  BY <2>5, <2>6
<1>19. CASE ReplayDelete
  <2>1. DiskType'
    BY <1>19 DEF ReplayDelete, LineLeft, NextLine, State, ghosts
  <2>2. LocalsType'
    BY <1>19 DEF ReplayDelete, LineLeft, NextLine, State, ghosts
  <2>3. InRange'
    BY <1>19 DEF ReplayDelete, LineLeft, NextLine, State, ghosts
  <2>. QED  BY <2>1, <2>2, <2>3
<1>20. CASE ReplayDone
  <2>1. DiskType'
    BY <1>20 DEF ReplayDone, disk
  <2>2. LocalsType' /\ InRange'
    <3>1. CASE op = "install"
      BY <1>20, <3>1 DEF ReplayDone, ghosts, disk
    <3>2. CASE op # "install"
      BY <1>20, <3>2 DEF ReplayDone, Return, ghosts, disk
    <3>. QED  BY <3>1, <3>2
  <2>. QED  BY <2>1, <2>2
<1>21. ASSUME NEW name \in {"rollback", "rollback_tx"}, NEW p \in Packages,
              NEW l \in Seq(Entry) \cup {NoLog}, StartReplay(name, p, l)
       PROVE  TypeOK'
  <2>1. DiskType'
    BY <1>21 DEF StartReplay, disk
  <2>2. LocalsType'
    BY <1>21 DEF StartReplay, disk
  <2>3. InRange'
    BY <1>21 DEF StartReplay, disk
  <2>. QED  BY <2>1, <2>2, <2>3
<1>22. CASE Crash
  <2>1. DiskType'
    BY <1>22 DEF Crash, disk
  <2>2. LocalsType' /\ InRange'
    BY <1>22 DEF Crash, Return, ghosts
  <2>. QED  BY <2>1, <2>2
<1>23. CASE UNCHANGED vars
  BY <1>23 DEF vars, disk, locals, ghosts
<1>24. CASE \E p \in Packages : Rollback(p)
  BY <1>21, <1>24 DEF Rollback
<1>25. CASE \E p \in Packages, id \in 1 .. TxBound : RollbackTransaction(p, id)
  <2>1. PICK p \in Packages, id \in 1 .. TxBound :
                StartReplay("rollback_tx", p, archive[p][id])
    BY <1>25 DEF RollbackTransaction
  <2>2. archive[p][id] \in Seq(Entry) \cup {NoLog}
    BY SMTT(30)
  <2>. QED  BY <1>21, <2>1, <2>2
<1>. QED
  BY <1>1, <1>2, <1>3, <1>4, <1>5, <1>6, <1>7, <1>8, <1>9, <1>10, <1>11, <1>12,
     <1>13, <1>14, <1>15, <1>16, <1>17, <1>18, <1>19, <1>20, <1>22, <1>23,
     <1>24, <1>25 DEF Next, Call, InstallStep, ReplayStep

\* Every variable of the installer keeps its range, whatever fails and whenever
\* the process dies.
THEOREM TypeCorrect == Spec => []TypeOK
BY TypeInit, TypeNext, PTL DEF Spec
=============================================================================
