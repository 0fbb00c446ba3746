------------------------ MODULE PackageJournalProofs ------------------------
(***************************************************************************)
(* The write-ahead journal of an install, for every value of the constants *)
(* of PackageInstall: JournalCovers and FailureRestores follow from the    *)
(* inductive invariant JournalInv, provided that no journal write is lost  *)
(* silently (LogsReliable), that no manifest backs two mappings up under   *)
(* one name (DistinctBackups) and, for the second, that no replayed line   *)
(* fails (ReplayReliable).                                                 *)
(***************************************************************************)
EXTENDS PackageInstallProofs

-----------------------------------------------------------------------------
(* Steps that leave the files, the journal and the tree of reference alone *)

\* The journal still covers the install when nothing it relates has changed.
LEMMA CoveredUnchanged ==
    ASSUME JournalCovers, UNCHANGED <<file, backup, pending, tx, pkg, before, unfinished>>
    PROVE  JournalCovers'
<1>1. LastLog' = LastLog
  BY DEF LastLog
<1>2. Undoes(LastLog, pkg, before) => Undoes(LastLog, pkg, before)'
  BY <1>1 DEF Undoes
<1>3. Covers(LastLog, before) => Covers(LastLog, before)'
  BY <1>1 DEF Covers, Named
<1>. QED  BY <1>1, <1>2, <1>3 DEF JournalCovers

\* No mapping the loop has passed shares its destination with the one at i.
LEMMA NotYetNamed ==
    ASSUME JournalInv, pc \in {"map", "journal"}, i <= Len(files),
           NEW k \in DOMAIN pending[pkg]
    PROVE  /\ pending[pkg][k].dst # dst
           /\ BackupOf[pending[pkg][k].dst] # BackupOf[dst]
<1>1. PICK n \in DOMAIN files : n < i /\ pending[pkg][k].dst = files[n].dst
  BY DEF JournalInv, Journalled
<1>2. OwnBackups(files)
  BY DEF JournalInv, Installing, Undoable
<1>3. i \in DOMAIN files /\ n # i
  BY <1>1 DEF JournalInv, TypeOK, LocalsType
<1>. QED  BY <1>1, <1>2, <1>3 DEF OwnBackups, dst

\* So the file at i is still the one the install found.
LEMMA StillBefore ==
    ASSUME JournalInv, pc \in {"map", "journal"}, i <= Len(files)
    PROVE  file[dst] = before[dst]
<1>1. LastLog = pending[pkg] /\ Covers(pending[pkg], before)
  BY DEF JournalInv, Installing, Undoable, JournalCovers, LastLog
<1>2. dst \in Paths
  BY MappingInRange DEF JournalInv
<1>. QED  BY <1>1, <1>2, NotYetNamed DEF Covers, Named

-----------------------------------------------------------------------------
LEMMA JournalInit == Init => JournalInv
<1>. SUFFICES ASSUME Init PROVE JournalInv
  OBVIOUS
<1>1. TypeOK
  BY TypeInit
<1>2. Installing /\ Journalled /\ Replayed /\ JournalCovers
  BY DEF Init, Installing, Undoable, Journalled, Replayed, FailureRestores, JournalCovers
<1>. QED  BY <1>1, <1>2 DEF JournalInv

\* A file operation of an install keeps the invariant: one lemma per operation
\* that changes the tree, the backups or the journal.
LEMMA BackUpKeeps ==
    ASSUME JournalInv, TypeOK', BackUp, LogsReliable
    PROVE  JournalInv'
<1>. USE DEF BackUp, AtMapping, Goto, Fail, ghosts
<1>1. pc = "map" /\ i <= Len(files) /\ pending[pkg] # NoLog /\ unfinished = "install"
  BY DEF JournalInv, Installing, Undoable
<1>2. dst \in Paths /\ dst' = dst /\ TypeOK
  BY MappingInRange DEF JournalInv, dst
<1>3. PICK r \in CopyOutcomes("backup", file[dst], backup[pkg][BackupOf[dst]]) :
         /\ backup' = [backup EXCEPT ![pkg][BackupOf[dst]] = r.is]
         /\ IF r.res = "ok" THEN Goto("journal") ELSE Fail("failed")
  OBVIOUS
<1>4. r.res = "ok" => r.is = file[dst]
  BY DEF CopyOutcomes, Unflushed, LogsReliable
<1>5. Installing'
  BY <1>1, <1>3 DEF JournalInv, Installing, Undoable, OwnBackups
<1>6. Journalled'
  <2>1. pc' = "journal" => backup'[pkg'][BackupOf[dst']] = file'[dst']
    BY <1>2, <1>3, <1>4 DEF TypeOK, DiskType, LocalsType
  <2>. QED  BY <1>1, <1>2, <1>3, <2>1 DEF JournalInv, Journalled
<1>7. Replayed'
  BY <1>3 DEF Replayed, FailureRestores
<1>8. JournalCovers'
  <2>1. LastLog = pending[pkg] /\ LastLog' = pending[pkg]
    BY <1>1, <1>3 DEF LastLog
  <2>2. ASSUME NEW k \in DOMAIN pending[pkg]
        PROVE  backup'[pkg][BackupOf[pending[pkg][k].dst]] = backup[pkg][BackupOf[pending[pkg][k].dst]]
    <3>1. BackupOf[pending[pkg][k].dst] # BackupOf[dst]
      BY <1>1, NotYetNamed
    <3>. QED  BY <1>2, <1>3, <3>1 DEF TypeOK, DiskType, LocalsType
  <2>3. Undoes(LastLog, pkg, before)'
    BY <1>1, <1>3, <2>1, <2>2 DEF JournalInv, JournalCovers, Undoes
  <2>4. Covers(LastLog, before)'
    BY <1>1, <2>1 DEF JournalInv, JournalCovers, Covers, Named
  <2>. QED  BY <1>1, <1>3, <2>1, <2>3, <2>4 DEF JournalCovers
<1>. QED  BY <1>5, <1>6, <1>7, <1>8 DEF JournalInv

LEMMA JournalKeeps ==
    ASSUME JournalInv, TypeOK', Journal, LogsReliable
    PROVE  JournalInv'
<1>. USE DEF Journal, Goto, Fail, ghosts
<1>1. pc = "journal" /\ i <= Len(files) /\ pending[pkg] # NoLog /\ unfinished = "install"
  BY DEF JournalInv, Installing, Undoable, TypeOK, InRange
<1>2. dst \in Paths /\ dst' = dst /\ TypeOK /\ file[dst] = before[dst]
  BY <1>1, MappingInRange, StillBefore DEF JournalInv, dst
<1>3. pending[pkg] \in Seq(Entry) /\ pkg \in Packages /\ JournalLine \in Entry
  BY <1>1, <1>2 DEF TypeOK, DiskType, LocalsType, JournalLine, Entry
<1>4. PICK r \in AppendOutcomes("journal", pending[pkg], JournalLine) :
         /\ pending' = [pending EXCEPT ![pkg] = r.is]
         /\ IF r.res = "ok" THEN Goto("copy") ELSE Fail("failed")
  OBVIOUS
<1>5. LastLog = pending[pkg] /\ Undoes(pending[pkg], pkg, before) /\ Covers(pending[pkg], before)
  BY <1>1 DEF JournalInv, JournalCovers, LastLog
<1>6. CASE r.res = "ok"
  <2>1. r.is = Append(pending[pkg], JournalLine)
    BY <1>1, <1>4, <1>6 DEF AppendOutcomes, LinesOf, Unflushed, LogsReliable
  <2>2. pending'[pkg] = Append(pending[pkg], JournalLine)
    BY <1>3, <1>4, <2>1 DEF TypeOK, DiskType
  <2>. DEFINE n == Len(pending[pkg])
  <2>3. /\ DOMAIN pending'[pkg] = 1 .. n + 1
        /\ DOMAIN pending[pkg] = 1 .. n
        /\ pending'[pkg] \in Seq(Entry)
        /\ pending'[pkg][n + 1] = JournalLine
        /\ \A k \in 1 .. n : pending'[pkg][k] = pending[pkg][k]
    BY <1>3, <2>2
  <2>4. pc' = "copy" /\ UNCHANGED <<op, pkg, files, i, installed, ok, log, j>>
    BY <1>4, <1>6
  <2>5. Installing'
    <3>1. pending'[pkg] # NoLog
      BY <2>3, ConstantsAssumption
    <3>. QED  BY <1>1, <2>4, <3>1 DEF JournalInv, Installing, Undoable, OwnBackups
  <2>6. Journalled'
    <3>1. JournalLine.dst = dst
      BY DEF JournalLine
    <3>2. i \in DOMAIN files /\ dst = files[i].dst
      BY <1>1, <1>2 DEF dst, TypeOK, LocalsType
    <3>3. ASSUME NEW k \in 1 .. n
          PROVE  \E m \in DOMAIN files : m < i /\ pending[pkg][k].dst = files[m].dst
      BY <1>1, <2>3 DEF JournalInv, Journalled
    <3>4. ASSUME NEW k \in 1 .. n + 1
          PROVE  \E m \in DOMAIN files : (m < i \/ m = i) /\ pending'[pkg][k].dst = files[m].dst
      <4>1. CASE k \in 1 .. n
        BY <2>3, <3>3, <4>1
      <4>2. CASE k = n + 1
        BY <2>3, <3>1, <3>2, <4>2
      <4>3. n \in Nat
        BY <1>3
      <4>. QED  BY <4>1, <4>2, <4>3
    <3>5. Named(pending[pkg], dst)'
      BY <1>2, <1>3, <2>3, <2>4, <3>1 DEF Named
    <3>. QED  BY <2>3, <2>4, <3>4, <3>5 DEF Journalled
  <2>7. Replayed'
    BY <2>4 DEF Replayed, FailureRestores
  <2>8. JournalCovers'
    <3>1. LastLog' = pending'[pkg]
      BY <2>3, <2>4, ConstantsAssumption DEF LastLog
    <3>2. Undoes(pending[pkg], pkg, before)'
      <4>1. ASSUME NEW k \in 1 .. n + 1
            PROVE  LET d == pending'[pkg][k].dst
                   IN  IF pending'[pkg][k].op = "RESTORE"
                       THEN before[d] # Absent /\ backup[pkg][BackupOf[d]] = before[d]
                       ELSE before[d] = Absent
        <5>1. CASE k \in 1 .. n
          BY <1>5, <2>3, <5>1 DEF Undoes
        <5>2. CASE k = n + 1
          <6>1. file[dst] # Absent => backup[pkg][BackupOf[dst]] = file[dst]
            BY <1>1 DEF JournalInv, Journalled
          <6>. QED  BY <1>2, <2>3, <5>2, <6>1 DEF JournalLine
        <5>3. n \in Nat
          BY <1>3
        <5>. QED  BY <5>1, <5>2, <5>3
      <4>. QED  BY <2>3, <2>4, <4>1 DEF Undoes
    <3>3. Covers(pending[pkg], before)'
      <4>1. \A d : Named(pending[pkg], d) => Named(pending'[pkg], d)
        BY <1>3, <2>3 DEF Named
      <4>. QED  BY <1>5, <2>4, <4>1 DEF Covers, Named
    <3>4. LastLog' # NoLog
      BY <2>3, <3>1, ConstantsAssumption
    <3>. QED  BY <2>4, <3>1, <3>2, <3>3, <3>4 DEF JournalCovers
  <2>. QED  BY <2>5, <2>6, <2>7, <2>8 DEF JournalInv
<1>7. CASE r.res # "ok"
  <2>1. r.is = pending[pkg]
    BY <1>4, <1>7 DEF AppendOutcomes, Unflushed, LogsReliable
  <2>2. pending' = pending
    BY <1>3, <1>4, <2>1 DEF TypeOK, DiskType
  <2>3. pc' = "failed" /\ UNCHANGED <<op, pkg, files, i, installed, log, j>>
    BY <1>4, <1>7
  <2>4. JournalCovers'
    BY <2>2, <2>3, CoveredUnchanged DEF JournalInv
  <2>. QED
    BY <1>1, <2>2, <2>3, <2>4
    DEF JournalInv, Installing, Undoable, OwnBackups, Journalled, Replayed, FailureRestores
<1>. QED  BY <1>6, <1>7

LEMMA CopyKeeps ==
    ASSUME JournalInv, TypeOK', CopyPayload
    PROVE  JournalInv'
<1>. USE DEF CopyPayload, Fail, ghosts
<1>1. /\ pc = "copy" /\ op = "install" /\ i <= Len(files)
      /\ pending[pkg] # NoLog /\ unfinished = "install" /\ Named(pending[pkg], dst)
  BY DEF JournalInv, Installing, Undoable, Journalled, TypeOK, InRange
<1>2. PICK r \in CopyOutcomes("copy", files[i].new, file[dst]) :
         /\ file' = [file EXCEPT ![dst] = r.is]
         /\ IF r.res = "ok"
            THEN /\ pc' = "map" /\ i' = i + 1 /\ installed' = installed + 1
                 /\ UNCHANGED <<op, pkg, files, ok, log, j>>
            ELSE Fail("failed")
  OBVIOUS
<1>3. /\ pc' \in {"map", "failed"} /\ i' \in {i, i + 1} /\ (pc' = "map" => i' = i + 1)
      /\ UNCHANGED <<op, pkg, files, log, j>>
  BY <1>2
<1>4. Installing'
  BY <1>1, <1>3 DEF JournalInv, Installing, Undoable, OwnBackups
<1>5. Journalled'
  <2>1. ASSUME NEW k \in DOMAIN pending[pkg], pc' = "map"
        PROVE  \E n \in DOMAIN files : n < i' /\ pending[pkg][k].dst = files[n].dst
    <3>1. PICK n \in DOMAIN files : n <= i /\ pending[pkg][k].dst = files[n].dst
      BY <1>1 DEF JournalInv, Journalled, TypeOK, LocalsType
    <3>2. n < i'
      BY <1>3, <2>1, <3>1 DEF JournalInv, TypeOK, LocalsType
    <3>. QED  BY <3>1, <3>2
  <2>. QED  BY <1>3, <2>1 DEF Journalled
<1>6. Replayed'
  BY <1>3 DEF Replayed, FailureRestores
<1>7. JournalCovers'
  <2>1. LastLog = pending[pkg] /\ LastLog' = pending[pkg]
    BY <1>1, <1>3 DEF LastLog
  <2>2. Undoes(LastLog, pkg, before)'
    BY <1>1, <1>3, <2>1 DEF JournalInv, JournalCovers, Undoes
  <2>3. \A d \in Paths : d # dst => file'[d] = file[d]
    BY <1>2 DEF JournalInv, TypeOK, DiskType
  <2>4. Covers(LastLog, before)'
    BY <1>1, <1>3, <2>1, <2>3 DEF JournalInv, JournalCovers, Covers, Named
  <2>. QED  BY <1>1, <1>3, <2>1, <2>2, <2>4 DEF JournalCovers
<1>. QED  BY <1>4, <1>5, <1>6, <1>7 DEF JournalInv

\* A replayed line puts one file of a failed install back.
LEMMA ReplayKeeps ==
    ASSUME JournalInv, TypeOK', ReplayRestore \/ ReplayDelete, LogsReliable
    PROVE  JournalInv'
<1>. DEFINE d == log[j].dst
<1>1. /\ pc = "replay" /\ pc' = "replay" /\ LineLeft /\ j' = j + 1
      /\ UNCHANGED <<backup, pending, tx, op, pkg, files, i, log, before, unfinished>>
  BY DEF ReplayRestore, ReplayDelete, NextLine, ghosts
<1>2. d \in Paths /\ j \in 1 .. Len(log) /\ TypeOK
  BY <1>1, LineInRange DEF JournalInv, TypeOK, LocalsType, LineLeft
<1>3. Installing' /\ Journalled'
  BY <1>1 DEF JournalInv, Installing, Undoable, OwnBackups, Journalled
<1>4. \A e \in Paths : e # d => file'[e] = file[e]
  BY DEF ReplayRestore, ReplayDelete, JournalInv, TypeOK, DiskType
<1>5. CASE op = "install"
  <2>1. log = pending[pkg] /\ pending[pkg] # NoLog /\ unfinished = "install"
    BY <1>1, <1>5 DEF JournalInv, Installing, Replayed
  <2>2. LastLog = log /\ LastLog' = log /\ Undoes(log, pkg, before) /\ Covers(log, before)
    BY <1>1, <2>1 DEF LastLog, JournalInv, JournalCovers
  <2>3. j \in DOMAIN log
    BY <1>2 DEF TypeOK, LocalsType
  <2>4. ASSUME ReplayReliable PROVE file'[d] = before[d]
    <3>1. CASE log[j].op = "RESTORE"
      <4>1. before[d] # Absent /\ backup[pkg][BackupOf[d]] = before[d]
        BY <2>2, <2>3, <3>1 DEF Undoes
      <4>2. PICK r \in CopyOutcomes("restore", backup[pkg][BackupOf[d]], file[d]) :
               file' = [file EXCEPT ![d] = r.is]
        BY <3>1 DEF ReplayRestore, ReplayDelete
      <4>3. r.is = before[d]
        BY <2>4, <4>1, <4>2 DEF CopyOutcomes, Unflushed, LogsReliable, ReplayReliable
      <4>. QED  BY <1>2, <4>2, <4>3 DEF TypeOK, DiskType
    <3>2. CASE log[j].op # "RESTORE"
      <4>1. before[d] = Absent
        BY <2>2, <2>3, <3>2 DEF Undoes
      <4>2. file' = [file EXCEPT ![d] = Absent]
        BY <2>4, <3>2 DEF ReplayRestore, ReplayDelete, Outcomes, ReplayReliable
      <4>. QED  BY <1>2, <4>1, <4>2 DEF TypeOK, DiskType
    <3>. QED  BY <3>1, <3>2
  <2>5. ASSUME ReplayReliable, NEW e \in Paths, file'[e] # before[e]
        PROVE  \E k \in j + 1 .. Len(log) : log[k].dst = e
    <3>1. e # d /\ file[e] # before[e]
      BY <1>4, <2>4, <2>5
    <3>2. PICK k \in j .. Len(log) : log[k].dst = e
      BY <1>1, <1>5, <2>5, <3>1 DEF JournalInv, Replayed
    <3>3. k \in j + 1 .. Len(log)
      BY <1>2, <3>1, <3>2
    <3>. QED  BY <3>2, <3>3
  <2>6. Replayed'
    BY <1>1, <2>1, <2>5 DEF Replayed, FailureRestores, ReplayReliable
  <2>7. JournalCovers'
    <3>1. Undoes(log, pkg, before)'
      BY <1>1, <2>2 DEF Undoes
    <3>2. Covers(log, before)'
      BY <1>1, <1>4, <2>2, <2>3 DEF Covers, Named
    <3>. QED  BY <1>1, <2>1, <2>2, <3>1, <3>2 DEF JournalCovers
  <2>. QED  BY <1>3, <2>6, <2>7 DEF JournalInv
<1>6. CASE op # "install"
  BY <1>1, <1>3, <1>6
  DEF JournalInv, Installing, Replayed, FailureRestores, JournalCovers
<1>. QED  BY <1>5, <1>6

\* When no line is left the tree is the one the install found.
LEMMA ReplayDoneKeeps ==
    ASSUME JournalInv, TypeOK', ReplayDone
    PROVE  JournalInv'
<1>1. pc = "replay" /\ ~LineLeft /\ UNCHANGED <<disk, ghosts>>
  BY DEF ReplayDone
<1>2. CASE op = "install"
  <2>1. pc' = "undone" /\ UNCHANGED <<op, pkg, files, i, installed, ok, log, j>>
    BY <1>2 DEF ReplayDone, Goto
  <2>2. j .. Len(log) = {}
    BY <1>1 DEF LineLeft, JournalInv, TypeOK, LocalsType
  <2>3. ReplayReliable => \A d \in Paths : file[d] = before[d]
    BY <1>1, <1>2, <2>2 DEF JournalInv, Replayed
  <2>4. ReplayReliable => file = before
    BY <2>3 DEF JournalInv, TypeOK, DiskType, LocalsType
  <2>5. Installing' /\ Journalled' /\ Replayed'
    BY <1>1, <1>2, <2>1, <2>4
    DEF JournalInv, Installing, Undoable, OwnBackups, Journalled, Replayed,
        FailureRestores, ReplayReliable, disk, ghosts
  <2>6. JournalCovers'
    BY <1>1, <2>1, CoveredUnchanged DEF JournalInv, disk, ghosts
  <2>. QED  BY <2>5, <2>6 DEF JournalInv
<1>3. CASE op # "install"
  <2>1. pc' = "idle" /\ op' = "none" /\ unfinished' = "none"
    BY <1>1, <1>3 DEF ReplayDone, Return, JournalInv, Installing, ghosts
  <2>. QED
    BY <2>1
    DEF JournalInv, Installing, Undoable, Journalled, Replayed, FailureRestores, JournalCovers
<1>. QED  BY <1>2, <1>3

LEMMA StartUndoKeeps ==
    ASSUME JournalInv, TypeOK', StartUndo
    PROVE  JournalInv'
<1>1. /\ pc = "failed" /\ op = "install" /\ pending[pkg] # NoLog /\ unfinished = "install"
      /\ pc' = "replay" /\ log' = pending[pkg] /\ j' = 1
      /\ UNCHANGED <<disk, op, pkg, files, i, before, unfinished>>
  BY DEF StartUndo, JournalInv, Installing, Undoable, LinesOf, ghosts
<1>2. JournalCovers'
  BY <1>1, CoveredUnchanged DEF JournalInv, disk
<1>3. Replayed'
  <2>1. Covers(pending[pkg], before)
    BY <1>1 DEF JournalInv, JournalCovers, LastLog
  <2>2. DOMAIN log' = 1 .. Len(log')
    BY DEF TypeOK, LocalsType
  <2>. QED  BY <1>1, <2>1, <2>2 DEF Covers, Named, Replayed, FailureRestores, disk
<1>4. Installing' /\ Journalled'
  BY <1>1 DEF JournalInv, Installing, Undoable, OwnBackups, Journalled, disk
<1>. QED  BY <1>2, <1>3, <1>4 DEF JournalInv

\* The rename moves the journal from the pending log to the committed one.
LEMMA RenameKeeps ==
    ASSUME JournalInv, TypeOK', RenamePending
    PROVE  JournalInv'
<1>1. /\ pc = "rename" /\ op = "install" /\ pending[pkg] # NoLog /\ unfinished = "install"
      /\ LastLog = pending[pkg]
  BY DEF RenamePending, JournalInv, Installing, Undoable, LastLog
<1>2. UNCHANGED <<file, backup, op, pkg, files, i, before, unfinished>>
  BY DEF RenamePending, Goto, Fail, ghosts
<1>3. CASE pc' = "archive"
  <2>1. tx' = [tx EXCEPT ![pkg] = pending[pkg]] /\ pending' = [pending EXCEPT ![pkg] = NoLog]
    BY <1>3 DEF RenamePending, Fail
  <2>2. tx'[pkg] = pending[pkg] /\ pending'[pkg] = NoLog
    BY <2>1 DEF JournalInv, TypeOK, DiskType, LocalsType
  <2>3. LastLog' = pending[pkg]
    BY <1>2, <2>2 DEF LastLog
  <2>4. JournalCovers'
    BY <1>1, <1>2, <2>3 DEF JournalInv, JournalCovers, Undoes, Covers, Named
  <2>. QED
    BY <1>1, <1>2, <1>3, <2>2, <2>4
    DEF JournalInv, Installing, Undoable, OwnBackups, Journalled, Replayed, FailureRestores
<1>4. CASE pc' # "archive"
  <2>1. pc' = "record" /\ UNCHANGED <<tx, pending>>
    BY <1>4 DEF RenamePending, Goto, Fail
  <2>2. JournalCovers'
    BY <1>2, <2>1, CoveredUnchanged DEF JournalInv
  <2>. QED
    BY <1>2, <2>1, <2>2
    DEF JournalInv, Installing, Undoable, OwnBackups, Journalled, Replayed, FailureRestores
<1>. QED  BY <1>3, <1>4

\* A step that ends a call, and one that starts a replay, leave nothing unfinished.
LEMMA NothingUnfinished ==
    ASSUME TypeOK', pc' \in {"idle", "replay"}, op' # "install", unfinished' = "none"
    PROVE  JournalInv'
BY DEF JournalInv, Installing, Undoable, Journalled, Replayed, FailureRestores, JournalCovers

LEMMA BeginKeeps ==
    ASSUME JournalInv, TypeOK', NEW m \in Manifests, Begin(m), LogsReliable, DistinctBackups
    PROVE  JournalInv'
<1>1. /\ pc' \in {"map", "failed"} /\ op' = "install" /\ files' = m.files
      /\ pkg' = m.id /\ unfinished' = "install" /\ before' = file /\ file' = file
  BY DEF Begin
<1>2. pending' = [pending EXCEPT ![m.id] = <<>>]
  BY DEF Begin, Outcomes, LogsReliable
<1>3. pending'[pkg'] = <<>> /\ <<>> # NoLog
  <2>1. m.id \in Packages /\ <<>> \in Seq(Entry) /\ NoLog \notin Seq(Entry)
    BY ConstantsAssumption
  <2>. QED  BY <1>1, <1>2, <2>1 DEF JournalInv, TypeOK, DiskType
<1>4. LastLog' = <<>>
  BY <1>3 DEF LastLog
<1>5. JournalCovers'
  BY <1>1, <1>3, <1>4 DEF JournalCovers, Undoes, Covers, Named
<1>6. Installing' /\ Journalled' /\ Replayed'
  BY <1>1, <1>3
  DEF DistinctBackups, Installing, Undoable, Journalled, Replayed, FailureRestores
<1>. QED  BY <1>5, <1>6 DEF JournalInv

LEMMA JournalNext ==
    ASSUME LogsReliable, DistinctBackups, JournalInv, [Next]_vars
    PROVE  JournalInv'
<1>. DEFINE Still == UNCHANGED <<file, backup, pending, tx, pkg, before, unfinished>>
<1>1. TypeOK'
  BY TypeNext DEF JournalInv
<1>2. Still => JournalCovers'
  BY CoveredUnchanged DEF JournalInv
<1>. USE DEF Goto, Fail, disk, ghosts
<1>. HIDE DEF Still
<1>3. CASE MkdirFails \/ SkipUnchanged \/ NoBackup \/ MappingsDone
  <2>1. /\ Still /\ UNCHANGED <<op, files>>
        /\ pc = "map" /\ pc' \in {"map", "journal", "failed", "commit", "noop"}
        /\ i' \in {i, i + 1} /\ (pc' = "journal" => i' = i /\ file[dst] = Absent)
    BY <1>3 DEF MkdirFails, SkipUnchanged, NoBackup, MappingsDone, AtMapping, Still
  <2>2. Installing' /\ Replayed'
    BY <2>1
    DEF JournalInv, Installing, Undoable, OwnBackups, Replayed, FailureRestores, Still
  <2>3. ASSUME NEW k \in DOMAIN pending[pkg]
        PROVE  \E n \in DOMAIN files : n < i' /\ pending[pkg][k].dst = files[n].dst
    <3>1. PICK n \in DOMAIN files : n < i /\ pending[pkg][k].dst = files[n].dst
      BY <2>1 DEF JournalInv, Journalled
    <3>2. n < i'
      BY <2>1, <3>1 DEF JournalInv, TypeOK, LocalsType
    <3>. QED  BY <3>1, <3>2
  <2>4. Journalled'
    <3>1. pc' = "journal" => dst' = dst
      BY <2>1 DEF dst
    <3>. QED  BY <2>1, <2>3, <3>1 DEF Journalled, Still
  <2>. QED  BY <1>1, <1>2, <2>1, <2>2, <2>4 DEF JournalInv
<1>4. CASE RemoveCommitted \/ MarkRolledBack
  <2>1. /\ pending[pkg] # NoLog /\ op = "install" /\ unfinished = "install"
        /\ pc \in {"commit", "undone"} /\ pc' \in {"rename", "record"}
        /\ UNCHANGED <<file, backup, op, pkg, files, i, before, unfinished>>
    BY <1>4 DEF RemoveCommitted, MarkRolledBack, JournalInv, Installing, Undoable
  <2>2. pending' = pending
    <3>1. LinesOf(pending[pkg]) = pending[pkg]
      BY <2>1 DEF LinesOf
    <3>. QED  BY <1>4, <3>1 DEF RemoveCommitted, MarkRolledBack, JournalInv, TypeOK, DiskType
  <2>3. JournalCovers'
    <3>1. LastLog = pending[pkg] /\ LastLog' = pending[pkg]
      BY <2>1, <2>2 DEF LastLog
    <3>. QED
      BY <2>1, <2>2, <3>1 DEF JournalInv, JournalCovers, Undoes, Covers, Named
  <2>. QED
    BY <1>1, <2>1, <2>2, <2>3
    DEF JournalInv, Installing, Undoable, OwnBackups, Journalled, Replayed, FailureRestores
<1>5. CASE ArchiveLog \/ AppendIndex \/ WriteCounter
  <2>1. /\ Still /\ UNCHANGED <<op, files>>
        /\ pc \in {"archive", "index", "counter"} /\ pc' \in {"index", "counter", "record"}
    BY <1>5 DEF ArchiveLog, AppendIndex, WriteCounter, Still
  <2>. QED
    BY <1>1, <1>2, <2>1
    DEF JournalInv, Installing, Undoable, OwnBackups, Journalled, Replayed, FailureRestores, Still
<1>6. CASE NoOp
  <2>1. pc' = "record" /\ unfinished' = "none" /\ UNCHANGED <<op, files>>
    BY <1>6 DEF NoOp
  <2>. QED
    BY <1>1, <2>1
    DEF JournalInv, Installing, Undoable, OwnBackups, Journalled, Replayed,
        FailureRestores, JournalCovers
<1>7. CASE Record
  BY <1>1, <1>7, NothingUnfinished DEF Record, Return
<1>8. CASE Crash
  <2>1. Still /\ pc' = "idle" /\ op' = "none"
    BY <1>8 DEF Crash, Return, Still
  <2>. QED
    BY <1>1, <1>2, <2>1
    DEF JournalInv, Installing, Undoable, Journalled, Replayed, FailureRestores
<1>9. CASE UNCHANGED vars
  <2>1. Still /\ UNCHANGED <<pc, op, files, i, log, j>>
    BY <1>9 DEF vars, locals, Still
  <2>. QED
    BY <1>1, <1>2, <2>1
    DEF JournalInv, Installing, Undoable, OwnBackups, Journalled, Replayed,
        FailureRestores, Named, dst, Still
<1>10. ASSUME NEW name \in {"rollback", "rollback_tx"}, NEW p, NEW l, StartReplay(name, p, l)
       PROVE  JournalInv'
  BY <1>1, <1>10, NothingUnfinished DEF StartReplay
<1>11. CASE \E p \in Packages : Rollback(p)
  BY <1>10, <1>11 DEF Rollback
<1>12. CASE \E p \in Packages, id \in 1 .. TxBound : RollbackTransaction(p, id)
  BY <1>10, <1>12 DEF RollbackTransaction
<1>. QED
  BY <1>1, <1>3, <1>4, <1>5, <1>6, <1>7, <1>8, <1>9, <1>11, <1>12, BeginKeeps,
     BackUpKeeps, JournalKeeps, CopyKeeps, ReplayKeeps, ReplayDoneKeeps, StartUndoKeeps,
     RenameKeeps DEF Next, Call, InstallStep, ReplayStep

-----------------------------------------------------------------------------
\* Whichever forward operation fails and wherever a crash cuts an install, the
\* log on disk names every file it touched and its backups hold what they were.
THEOREM JournalAlwaysCovers ==
    ASSUME LogsReliable, DistinctBackups
    PROVE  Spec => []JournalCovers
<1>1. Init => JournalInv
  BY JournalInit
<1>2. JournalInv /\ [Next]_vars => JournalInv'
  BY JournalNext
<1>3. JournalInv => JournalCovers
  BY DEF JournalInv
<1>. QED  BY <1>1, <1>2, <1>3, PTL DEF Spec

\* The replay of a failed install always ends at the tree the install found.
THEOREM FailedInstallRestores ==
    ASSUME LogsReliable, ReplayReliable, DistinctBackups
    PROVE  Spec => []FailureRestores
<1>1. Init => JournalInv
  BY JournalInit
<1>2. JournalInv /\ [Next]_vars => JournalInv'
  BY JournalNext
<1>3. JournalInv => FailureRestores
  BY DEF JournalInv, Replayed
<1>. QED  BY <1>1, <1>2, <1>3, PTL DEF Spec

-----------------------------------------------------------------------------
(* The history *)

\* The counter is written whenever an index line is: its write neither fails
\* nor is lost, and the process does not die before it.
CounterReliable == {"counter", "flush", "crash"} \cap Faults = {}

\* The log that is archived exists, under the next id, and is indexed before
\* the counter passes it.
Archiving ==
    /\ pc = "rename" => pending[pkg] # NoLog
    /\ pc = "archive" => tx[pkg] # NoLog
    /\ pc = "index" => archive[pkg][j] # NoLog
    /\ pc \in {"index", "counter"} => j = next[pkg]

HistoryInv == TypeOK /\ Archiving /\ HistoryOrdered

LEMMA HistoryInit == Init => HistoryInv
<1>. SUFFICES ASSUME Init PROVE HistoryInv
  OBVIOUS
<1>1. TypeOK
  BY TypeInit
<1>2. Archiving /\ HistoryOrdered
  BY DEF Init, Archiving, HistoryOrdered
<1>. QED  BY <1>1, <1>2 DEF HistoryInv

\* The history is ordered still when the disk of the history has not changed
\* and no counter was to be written.
LEMMA OrderedUnchanged ==
    ASSUME HistoryOrdered, pc # "counter", UNCHANGED <<archive, index, next>>
    PROVE  HistoryOrdered'
BY DEF HistoryOrdered

\* An index holds ids of the history.
LEMMA IndexRange ==
    ASSUME TypeOK, NEW p \in Packages, NEW a \in DOMAIN index[p]
    PROVE  index[p][a] \in 1 .. TxBound
<1>1. index[p] \in Seq(1 .. TxBound)
  BY DEF TypeOK, DiskType
<1>2. ASSUME NEW S, NEW s \in Seq(S), NEW n \in DOMAIN s PROVE s[n] \in S
  OBVIOUS
<1>. QED  BY <1>1, <1>2

\* The archive copy goes to the id the counter gives.
LEMMA Archived ==
    ASSUME CounterReliable, TypeOK, ArchiveLog
    PROVE  /\ j' = next[pkg] /\ j' \in 1 .. TxBound /\ pc' \in {"index", "record"}
           /\ pc' = "index" => archive'[pkg][j'] = tx[pkg]
           /\ \A p \in Packages : \A n \in 1 .. TxBound :
                 archive'[p][n] # archive[p][n] => p = pkg /\ n = j'
<1>1. PICK id \in CounterReads(pkg), copied \in Outcomes("archive") :
        /\ \E l \in IF copied = "ok" THEN {tx[pkg]} \cup Unflushed({<<>>})
                             ELSE {archive[pkg][id], <<>>} :
              archive' = [archive EXCEPT ![pkg][id] = l]
        /\ j' = id
        /\ IF copied = "ok" THEN pc' = "index" /\ ok' = ok
                     ELSE pc' = "record" /\ ok' = 0
  BY DEF ArchiveLog
<1>2. id = next[pkg] /\ id \in 1 .. TxBound /\ Unflushed({<<>>}) = {}
  BY CounterReadsType DEF ArchiveLog, CounterReads, CounterReliable, Unflushed
<1>3. PICK l : archive' = [archive EXCEPT ![pkg][id] = l] /\ (copied = "ok" => l = tx[pkg])
  BY <1>1, <1>2
<1>4. pkg \in Packages /\ archive \in [Packages -> [1 .. TxBound -> Seq(Entry) \cup {NoLog}]]
  BY DEF TypeOK, DiskType, LocalsType
<1>. QED  BY <1>1, <1>2, <1>3, <1>4

\* ... which no index line has yet.
LEMMA ArchiveKeeps ==
    ASSUME CounterReliable, HistoryInv, ArchiveLog,
           NEW p \in Packages, NEW a \in DOMAIN index[p]
    PROVE  archive'[p][index[p][a]] = archive[p][index[p][a]]
<1>1. index[p][a] \in 1 .. TxBound /\ next[p] \in Nat /\ TypeOK
  BY IndexRange, ConstantsAssumption DEF HistoryInv, TypeOK, DiskType
<1>2. index[p][a] < next[p]
  BY DEF HistoryInv, HistoryOrdered, ArchiveLog
<1>3. ~(p = pkg /\ index[p][a] = j')
  BY <1>1, <1>2, Archived
<1>. QED  BY <1>1, <1>3, Archived

\* No other step writes an archived log.
LEMMA LogKept ==
    ASSUME CounterReliable, HistoryInv, Next,
           NEW p \in Packages, NEW a \in DOMAIN index[p]
    PROVE  archive'[p][index[p][a]] = archive[p][index[p][a]]
<1>1. CASE ArchiveLog
  BY <1>1, ArchiveKeeps
<1>2. CASE ~ArchiveLog
  <2>1. archive' = archive
    BY <1>2
    DEF Next, Call, InstallStep, ReplayStep, MkdirFails, SkipUnchanged, NoBackup, BackUp,
        Journal, CopyPayload, MappingsDone, NoOp, RemoveCommitted, RenamePending,
        AppendIndex, WriteCounter, StartUndo, MarkRolledBack, Record, ReplayRestore,
        ReplayDelete, ReplayDone, Begin, Rollback, RollbackTransaction, StartReplay, Crash,
        disk
  <2>. QED  BY <2>1
<1>. QED  BY <1>1, <1>2

LEMMA HistoryStep ==
    ASSUME CounterReliable, HistoryInv, [Next]_vars
    PROVE  HistoryInv'
<1>1. TypeOK'
  BY TypeNext DEF HistoryInv
<1>. USE DEF HistoryInv, Goto, Fail, disk, ghosts, Outcomes
<1>2. CASE \/ MkdirFails \/ SkipUnchanged \/ NoBackup \/ BackUp \/ Journal \/ CopyPayload
           \/ MappingsDone \/ NoOp \/ StartUndo \/ MarkRolledBack \/ Record
           \/ ReplayRestore \/ ReplayDelete \/ ReplayDone
           \/ (\E m \in Manifests : Begin(m)) \/ (\E p \in Packages : Rollback(p))
           \/ (\E p \in Packages, id \in 1 .. TxBound : RollbackTransaction(p, id))
  <2>1. /\ pc \notin {"counter"} /\ UNCHANGED <<archive, index, next>>
        /\ pc' \notin {"rename", "archive", "index", "counter"}
    BY <1>2
    DEF MkdirFails, SkipUnchanged, NoBackup, BackUp, Journal, CopyPayload, MappingsDone,
        NoOp, StartUndo, MarkRolledBack, Record, ReplayRestore, ReplayDelete, ReplayDone,
        Begin, Rollback, RollbackTransaction, StartReplay, Return, AtMapping
  <2>. QED  BY <1>1, <2>1, OrderedUnchanged DEF Archiving
<1>3. CASE RemoveCommitted
  <2>1. pc = "commit" /\ pc' \in {"rename", "record"} /\ UNCHANGED <<archive, index, next, pkg>>
    BY <1>3 DEF RemoveCommitted
  <2>2. pc' = "rename" => pending'[pkg] # NoLog
    <3>1. LinesOf(pending[pkg]) # NoLog
      BY LinesOfType, ConstantsAssumption DEF TypeOK, DiskType, LocalsType
    <3>. QED  BY <1>3, <3>1 DEF RemoveCommitted, TypeOK, DiskType, LocalsType
  <2>. QED  BY <1>1, <2>1, <2>2, OrderedUnchanged DEF Archiving
<1>4. CASE RenamePending
  <2>1. pc = "rename" /\ pc' \in {"archive", "record"} /\ UNCHANGED <<archive, index, next, pkg>>
    BY <1>4 DEF RenamePending
  <2>2. pc' = "archive" => tx'[pkg] = pending[pkg]
    BY <1>4 DEF RenamePending, TypeOK, DiskType, LocalsType
  <2>. QED  BY <1>1, <2>1, <2>2, OrderedUnchanged DEF Archiving
<1>5. CASE ArchiveLog
  <2>1. /\ pc = "archive" /\ pc' \in {"index", "record"}
        /\ j' = next[pkg] /\ UNCHANGED <<index, next, pkg>>
        /\ pc' = "index" => archive'[pkg][j'] # NoLog
    BY <1>5, Archived, ConstantsAssumption DEF ArchiveLog, Archiving
  <2>2. \A p \in Packages : \A a \in DOMAIN index[p] :
           archive'[p][index[p][a]] = archive[p][index[p][a]]
    BY <1>5, ArchiveKeeps
  <2>3. HistoryOrdered'
    BY <2>1, <2>2 DEF HistoryOrdered
  <2>. QED  BY <1>1, <2>1, <2>3 DEF Archiving
<1>6. CASE AppendIndex
  <2>1. /\ pc = "index" /\ pc' \in {"counter", "record"}
        /\ UNCHANGED <<archive, next, pkg, j>>
    BY <1>6 DEF AppendIndex
  <2>2. CASE pc' = "counter"
    <3>. DEFINE n == Len(index[pkg])
    <3>1. index' = [index EXCEPT ![pkg] = Append(index[pkg], j)]
      BY <1>6, <2>2 DEF AppendIndex, Unflushed, CounterReliable
    <3>2. index[pkg] \in Seq(1 .. TxBound) /\ j \in 1 .. TxBound /\ j = next[pkg] /\ n \in Nat
      BY <2>1 DEF TypeOK, DiskType, LocalsType, InRange, Archiving
    <3>3. /\ index'[pkg] = Append(index[pkg], j)
          /\ \A p \in Packages \ {pkg} : index'[p] = index[p]
      BY <3>1 DEF TypeOK, DiskType, LocalsType
    <3>4. /\ DOMAIN index'[pkg] = 1 .. n + 1 /\ DOMAIN index[pkg] = 1 .. n
          /\ index'[pkg][n + 1] = j
          /\ \A a \in 1 .. n : index'[pkg][a] = index[pkg][a]
      BY <3>2, <3>3
    <3>5. /\ \A a \in 1 .. n : index[pkg][a] < j
          /\ \A a, b \in 1 .. n : a < b => index[pkg][a] < index[pkg][b]
          /\ \A a \in 1 .. n : archive[pkg][index[pkg][a]] # NoLog
      BY <2>1, <3>2, <3>4 DEF HistoryOrdered, LocalsType, TypeOK
    <3>6. ASSUME NEW a \in 1 .. n + 1, NEW b \in 1 .. n + 1, a < b
          PROVE  index'[pkg][a] < index'[pkg][b]
      <4>1. CASE b \in 1 .. n
        <5>1. a \in 1 .. n
          BY <3>2, <3>6, <4>1
        <5>. QED  BY <3>4, <3>5, <3>6, <4>1, <5>1
      <4>2. CASE b = n + 1
        <5>1. a \in 1 .. n
          BY <3>2, <3>6, <4>2
        <5>. QED  BY <3>4, <3>5, <4>2, <5>1
      <4>. QED  BY <3>2, <4>1, <4>2
    <3>7. ASSUME NEW a \in 1 .. n + 1
          PROVE  /\ archive[pkg][index'[pkg][a]] # NoLog
                 /\ index'[pkg][a] < next[pkg] \/ index'[pkg][a] = j
      <4>1. archive[pkg][j] # NoLog
        BY <2>1 DEF Archiving
      <4>. QED  BY <3>2, <3>4, <3>5, <4>1
    <3>8. HistoryOrdered'
      <4>1. ASSUME NEW p \in Packages, p # pkg
            PROVE  /\ \A a, b \in DOMAIN index'[p] : a < b => index'[p][a] < index'[p][b]
                   /\ \A a \in DOMAIN index'[p] :
                         archive'[p][index'[p][a]] # NoLog /\ index'[p][a] < next'[p]
        <5>1. index'[p] = index[p]
          BY <3>3, <4>1
        <5>. QED  BY <2>1, <4>1, <5>1 DEF HistoryOrdered
      <4>2. DOMAIN index'[pkg] = 1 .. n + 1
        BY <3>4
      <4>3. /\ \A a, b \in DOMAIN index'[pkg] : a < b => index'[pkg][a] < index'[pkg][b]
            /\ \A a \in DOMAIN index'[pkg] :
                 /\ archive'[pkg][index'[pkg][a]] # NoLog
                 /\ index'[pkg][a] < next'[pkg] \/ index'[pkg][a] = j
        BY <2>1, <3>6, <3>7, <4>2
      <4>. QED  BY <2>1, <2>2, <4>1, <4>3 DEF HistoryOrdered
    <3>. QED  BY <1>1, <2>1, <2>2, <3>8 DEF Archiving
  <2>3. CASE pc' # "counter"
    <3>1. index' = index
      BY <1>6, <2>3 DEF AppendIndex, TypeOK, DiskType, LocalsType
    <3>. QED  BY <1>1, <2>1, <2>3, <3>1, OrderedUnchanged DEF Archiving
  <2>. QED  BY <2>2, <2>3
<1>7. CASE WriteCounter
  <2>1. /\ pc = "counter" /\ pc' = "record" /\ next' = [next EXCEPT ![pkg] = j + 1]
        /\ UNCHANGED <<archive, index, pkg>>
    BY <1>7 DEF WriteCounter, CounterReliable, Unflushed, IdAfter
  <2>2. next'[pkg] = j + 1 /\ \A p \in Packages \ {pkg} : next'[p] = next[p]
    BY <2>1 DEF TypeOK, DiskType, LocalsType
  <2>3. \A p \in Packages : \A a \in DOMAIN index[p] : index[p][a] \in 1 .. TxBound
    BY IndexRange
  <2>4. j = next[pkg] /\ j \in Nat
    BY <2>1 DEF Archiving, TypeOK, LocalsType
  <2>5. HistoryOrdered'
    <3>1. ASSUME NEW p \in Packages, NEW a \in DOMAIN index[p]
          PROVE  index[p][a] < next'[p]
      <4>1. index[p][a] < next[p] \/ (p = pkg /\ index[p][a] = j)
        BY DEF HistoryOrdered
      <4>. QED  BY <2>2, <2>3, <2>4, <4>1
    <3>. QED  BY <2>1, <3>1 DEF HistoryOrdered
  <2>. QED  BY <1>1, <2>1, <2>5 DEF Archiving
<1>8. CASE Crash
  BY <1>8 DEF Crash, CounterReliable
<1>9. CASE UNCHANGED vars
  BY <1>1, <1>9 DEF vars, locals, Archiving, HistoryOrdered
<1>. QED
  BY <1>2, <1>3, <1>4, <1>5, <1>6, <1>7, <1>8, <1>9 DEF Next, Call, InstallStep, ReplayStep

\* Without a fault of the counter each id of a history is new, below the counter
\* and has its log.
THEOREM HistoryIsOrdered ==
    ASSUME CounterReliable
    PROVE  Spec => []HistoryOrdered
<1>1. HistoryInv => HistoryOrdered
  BY DEF HistoryInv
<1>. QED  BY <1>1, HistoryInit, HistoryStep, PTL DEF Spec

\* ... and no step rewrites the log of a transaction in the history: the archive
\* copy goes to the id the counter gives, which no index line has yet.
THEOREM HistoryIsKept ==
    ASSUME CounterReliable
    PROVE  Spec => HistoryKept
<1>1. HistoryInv /\ [Next]_vars =>
         [\A p \in Packages : \A a \in DOMAIN index[p] :
             archive'[p][index[p][a]] = archive[p][index[p][a]]]_vars
  <2>1. ASSUME HistoryInv, Next,
               NEW p \in Packages, NEW a \in DOMAIN index[p]
        PROVE  archive'[p][index[p][a]] = archive[p][index[p][a]]
    BY <2>1, LogKept
  <2>. QED  BY <2>1
<1>. QED  BY <1>1, HistoryInit, HistoryStep, PTL DEF Spec, HistoryKept

-----------------------------------------------------------------------------
(* All or nothing *)

\* No file operation after the last mapping fails.
LateReliable == {"commit", "archive", "index", "counter"} \cap Faults = {}

\* The labels of the path on which nothing has failed, and those at which the
\* manifest loop is over.
Done    == {"noop", "commit", "rename", "archive", "index", "counter"}
Forward == {"map", "journal", "copy"} \cup Done

\* The loop leaves the mappings it has passed in place, and success is what it
\* says on the path on which nothing has failed.
Placed ==
    /\ pc \in Forward =>
          /\ ok = 1 /\ op = "install"
          /\ \A n \in DOMAIN files : n < i => file[files[n].dst] = files[n].new
    /\ pc \in Done => i > Len(files)
    /\ pc \in {"failed", "undone"} \/ (pc = "replay" /\ op = "install") => ok = 0
    /\ AllOrNothing

PlacedInv == JournalInv /\ Placed

LEMMA PlacedInit == Init => PlacedInv
BY JournalInit DEF Init, PlacedInv, Placed, Forward, Done, AllOrNothing

\* When the loop is over every mapping is in place.
LEMMA AllPlaced ==
    ASSUME TypeOK, Placed, pc \in Done
    PROVE  \A n \in DOMAIN files : file[files[n].dst] = files[n].new
BY DEF TypeOK, LocalsType, Placed, Forward

\* The copy of one payload leaves the other mappings in place.
LEMMA CopyPlaces ==
    ASSUME LogsReliable, PlacedInv, CopyPayload
    PROVE  Placed'
<1>1. /\ pc = "copy" /\ ok = 1 /\ op = "install" /\ i \in DOMAIN files /\ i \in Nat
      /\ OwnBackups(files) /\ dst = files[i].dst
      /\ \A n \in DOMAIN files : n < i => file[files[n].dst] = files[n].new
  BY DEF PlacedInv, Placed, Forward, CopyPayload, JournalInv, Installing, TypeOK,
         LocalsType, InRange, dst
<1>2. PICK r \in CopyOutcomes("copy", files[i].new, file[dst]) :
         /\ file' = [file EXCEPT ![dst] = r.is]
         /\ IF r.res = "ok"
            THEN /\ pc' = "map" /\ i' = i + 1 /\ installed' = installed + 1
                 /\ UNCHANGED <<op, pkg, files, ok, log, j>>
            ELSE Fail("failed")
  BY DEF CopyPayload
<1>3. CASE r.res = "ok"
  <2>1. r.is = files[i].new
    BY <1>2, <1>3 DEF CopyOutcomes, Unflushed, LogsReliable
  <2>2. dst \in Paths /\ file \in [Paths -> State]
    BY <1>1, MappingInRange DEF CopyPayload, PlacedInv, JournalInv, TypeOK, DiskType, InRange
  <2>3. ASSUME NEW n \in DOMAIN files, n < i + 1
        PROVE  file'[files[n].dst] = files[n].new
    <3>1. CASE n = i
      BY <1>1, <1>2, <2>1, <2>2, <3>1
    <3>2. CASE n # i
      <4>1. files[n].dst # dst
        BY <1>1, <3>2 DEF OwnBackups
      <4>2. n < i
        BY <1>1, <2>3, <3>2 DEF PlacedInv, JournalInv, TypeOK, LocalsType
      <4>. QED  BY <1>1, <1>2, <4>1, <4>2
    <3>. QED  BY <3>1, <3>2
  <2>. QED  BY <1>1, <1>2, <1>3, <2>3 DEF Placed, Forward, Done, AllOrNothing
<1>4. CASE r.res # "ok"
  BY <1>2, <1>4 DEF Fail, Placed, Forward, Done, AllOrNothing
<1>. QED  BY <1>3, <1>4

LEMMA PlacedStep ==
    ASSUME LogsReliable, ReplayReliable, LateReliable, DistinctBackups, PlacedInv, [Next]_vars
    PROVE  PlacedInv'
<1>1. JournalInv'
  BY JournalNext DEF PlacedInv
<1>. USE DEF PlacedInv, Forward, Done, Goto, Fail, disk, ghosts, Outcomes
<1>2. CASE CopyPayload
  BY <1>1, <1>2, CopyPlaces
<1>3. CASE SkipUnchanged
  <2>1. /\ pc = "map" /\ pc' = "map" /\ i' = i + 1 /\ UNCHANGED <<file, files, op, ok>>
        /\ file[files[i].dst] = files[i].new /\ i \in Nat /\ DOMAIN files \subseteq Nat
    BY <1>3 DEF SkipUnchanged, AtMapping, UpToDate, dst, JournalInv, TypeOK, LocalsType
  <2>2. \A n \in DOMAIN files : n < i' => file[files[n].dst] = files[n].new
    <3>1. \A n \in DOMAIN files : n < i' => n < i \/ n = i
      BY <2>1
    <3>. QED  BY <2>1, <3>1 DEF Placed
  <2>. QED  BY <1>1, <2>1, <2>2 DEF Placed, AllOrNothing
<1>4. CASE MkdirFails \/ NoBackup \/ BackUp \/ Journal
  <2>1. /\ pc \in {"map", "journal"} /\ UNCHANGED <<file, files, op, i>>
        /\ pc' \in {"journal", "copy", "failed"}
        /\ ok' = IF pc' = "failed" THEN 0 ELSE ok
    BY <1>4 DEF MkdirFails, NoBackup, BackUp, Journal, AtMapping
  <2>. QED  BY <1>1, <2>1 DEF Placed, AllOrNothing
<1>5. CASE MappingsDone
  <2>1. pc = "map" /\ i > Len(files) /\ pc' \in {"commit", "noop"}
        /\ UNCHANGED <<file, files, op, i, ok>>
    BY <1>5 DEF MappingsDone
  <2>. QED  BY <1>1, <2>1 DEF Placed, AllOrNothing
<1>6. CASE NoOp \/ RemoveCommitted \/ RenamePending \/ ArchiveLog \/ AppendIndex \/ WriteCounter
  <2>1. /\ pc \in Done /\ pc' \in Done \cup {"record"} /\ UNCHANGED <<file, files, op, i, ok>>
    BY <1>6
    DEF NoOp, RemoveCommitted, RenamePending, ArchiveLog, AppendIndex, WriteCounter, LateReliable
  <2>2. \A n \in DOMAIN files : file[files[n].dst] = files[n].new
    BY <2>1, AllPlaced DEF JournalInv
  <2>. QED  BY <1>1, <2>1, <2>2 DEF Placed, AllOrNothing
<1>7. CASE StartUndo
  BY <1>1, <1>7 DEF StartUndo, Placed, AllOrNothing
<1>8. CASE MarkRolledBack
  <2>1. pc = "undone" /\ pc' = "record" /\ UNCHANGED <<file, files, op, ok, before>>
    BY <1>8 DEF MarkRolledBack
  <2>2. file = before /\ ok = 0
    BY <2>1 DEF JournalInv, Replayed, FailureRestores, Placed
  <2>. QED  BY <1>1, <2>1, <2>2 DEF Placed, AllOrNothing
<1>9. CASE ReplayRestore \/ ReplayDelete
  <2>1. pc = "replay" /\ pc' = "replay" /\ op' = op /\ (ok = 0 => ok' = 0)
    BY <1>9 DEF ReplayRestore, ReplayDelete
  <2>. QED  BY <1>1, <2>1 DEF Placed, AllOrNothing
<1>10. CASE ReplayDone
  <2>1. \/ pc = "replay" /\ op = "install" /\ pc' = "undone" /\ ok' = ok
        \/ pc' = "idle"
    BY <1>10 DEF ReplayDone, Return
  <2>. QED  BY <1>1, <2>1 DEF Placed, AllOrNothing
<1>11. CASE Record \/ Crash
  BY <1>1, <1>11 DEF Record, Crash, Return, Placed, AllOrNothing
<1>12. ASSUME NEW m \in Manifests, Begin(m) PROVE PlacedInv'
  <2>1. /\ pc' \in {"map", "failed"} /\ (pc' = "map" => ok' = 1) /\ (pc' = "failed" => ok' = 0)
        /\ op' = "install" /\ i' = 1
    BY <1>12 DEF Begin
  <2>2. \A n \in DOMAIN files' : ~(n < i')
    BY <1>1, <2>1 DEF JournalInv, TypeOK, LocalsType
  <2>. QED  BY <1>1, <2>1, <2>2 DEF Placed, AllOrNothing
<1>13. ASSUME NEW name \in {"rollback", "rollback_tx"}, NEW p, NEW l, StartReplay(name, p, l)
       PROVE  PlacedInv'
  BY <1>1, <1>13 DEF StartReplay, Placed, AllOrNothing
<1>14. CASE UNCHANGED vars
  BY <1>1, <1>14 DEF vars, locals, Placed, AllOrNothing
<1>. QED
  BY <1>2, <1>3, <1>4, <1>5, <1>6, <1>7, <1>8, <1>9, <1>10, <1>11, <1>12, <1>13, <1>14
  DEF Next, Call, InstallStep, ReplayStep, Rollback, RollbackTransaction

\* An install that records its result has every mapping in place when it says
\* installed, and the tree it found when it says rolled_back: whatever forward
\* operation failed, provided that those of the commit do not (the run
\* pm_late_failure shows what happens when they do).
THEOREM InstallIsAtomic ==
    ASSUME LogsReliable, ReplayReliable, LateReliable, DistinctBackups
    PROVE  Spec => []AllOrNothing
<1>1. PlacedInv => AllOrNothing
  BY DEF PlacedInv, Placed
<1>. QED  BY <1>1, PlacedInit, PlacedStep, PTL DEF Spec

-----------------------------------------------------------------------------
(* What an Install that returns tells its caller *)

Late == {"commit", "rename", "archive", "index", "counter"}

\* No success after a failed operation; no change of the tree while no mapping
\* is counted; an id of the history for those that are.
Outcome ==
    /\ pc \in {"failed", "undone"} \/ (pc = "replay" /\ op = "install") => ok = 0
    /\ pc = "noop" => installed = 0
    /\ pc \in Late => installed > 0
    /\ pc \in {"map", "journal", "copy", "noop"} /\ installed = 0 => file = before
    /\ pc = "record" /\ ok = 1 =>
          IF installed = 0 THEN file = before ELSE j \in 1 .. TxBound

LEMMA OutcomeInit == Init => Outcome
BY DEF Init, Outcome, Late

LEMMA OutcomeStep ==
    ASSUME TypeOK, Outcome, [Next]_vars
    PROVE  Outcome'
<1>1. TypeOK'
  BY TypeNext
<1>. USE DEF Outcome, Late, Goto, Fail, disk, ghosts, Outcomes
<1>2. CASE MkdirFails \/ SkipUnchanged \/ NoBackup \/ BackUp \/ Journal
  <2>1. /\ pc \in {"map", "journal"} /\ UNCHANGED <<file, before, installed>>
        /\ pc' \in {"map", "journal", "copy", "failed"} /\ (pc' = "failed" => ok' = 0)
    BY <1>2 DEF MkdirFails, SkipUnchanged, NoBackup, BackUp, Journal, AtMapping
  <2>. QED  BY <2>1
<1>3. CASE CopyPayload
  <2>1. \/ pc' = "map" /\ installed' = installed + 1
        \/ pc' = "failed" /\ ok' = 0
    BY <1>3 DEF CopyPayload
  <2>2. installed \in Nat
    BY DEF TypeOK, LocalsType
  <2>. QED  BY <2>1, <2>2
<1>4. CASE MappingsDone
  <2>1. /\ pc = "map" /\ UNCHANGED <<file, before, installed>>
        /\ pc' = IF installed > 0 THEN "commit" ELSE "noop"
    BY <1>4 DEF MappingsDone
  <2>2. installed \in Nat
    BY DEF TypeOK, LocalsType
  <2>. QED  BY <2>1, <2>2
<1>5. CASE NoOp
  <2>1. /\ pc = "noop" /\ pc' = "record" /\ UNCHANGED <<file, before, installed>>
    BY <1>5 DEF NoOp
  <2>. QED  BY <2>1
<1>6. CASE RemoveCommitted \/ RenamePending
  <2>1. /\ pc \in Late /\ installed' = installed
        /\ pc' \in {"rename", "archive"} \/ (pc' = "record" /\ ok' = 0)
    BY <1>6 DEF RemoveCommitted, RenamePending
  <2>. QED  BY <2>1
<1>7. CASE ArchiveLog \/ AppendIndex \/ WriteCounter
  <2>1. /\ pc \in {"archive", "index", "counter"} /\ installed' = installed
        /\ \/ pc' \in {"index", "counter"}
           \/ pc' = "record" /\ ok' = 0
           \/ pc' = "record" /\ pc = "counter" /\ j' = j
    BY <1>7 DEF ArchiveLog, AppendIndex, WriteCounter
  <2>2. installed \in Nat /\ (pc = "counter" => j \in 1 .. TxBound)
    BY ConstantsAssumption DEF TypeOK, LocalsType, InRange
  <2>. QED  BY <2>1, <2>2
<1>8. CASE StartUndo \/ MarkRolledBack
  BY <1>8 DEF StartUndo, MarkRolledBack
<1>9. CASE ReplayRestore \/ ReplayDelete
  <2>1. pc = "replay" /\ pc' = "replay" /\ op' = op /\ (ok = 0 => ok' = 0)
    BY <1>9 DEF ReplayRestore, ReplayDelete
  <2>. QED  BY <2>1
<1>10. CASE ReplayDone
  BY <1>10 DEF ReplayDone, Return
<1>11. CASE Record \/ Crash
  BY <1>11 DEF Record, Crash, Return
<1>12. ASSUME NEW m \in Manifests, Begin(m) PROVE Outcome'
  BY <1>12 DEF Begin
<1>13. ASSUME NEW name \in {"rollback", "rollback_tx"}, NEW p, NEW l, StartReplay(name, p, l)
       PROVE  Outcome'
  BY <1>13 DEF StartReplay
<1>14. CASE UNCHANGED vars
  BY <1>14 DEF vars, locals
<1>. QED
  BY <1>2, <1>3, <1>4, <1>5, <1>6, <1>7, <1>8, <1>9, <1>10, <1>11, <1>12, <1>13, <1>14
  DEF Next, Call, InstallStep, ReplayStep, Rollback, RollbackTransaction

\* The id that is handed out names the log of what the install did.
HandedOut ==
    pc \in {"index", "counter"} \/ (pc = "record" /\ ok = 1 /\ installed > 0) =>
       /\ archive[pkg][j] = tx[pkg] /\ tx[pkg] # NoLog
       /\ pending[pkg] = NoLog /\ unfinished = "install"

LEMMA HandedOutStep ==
    ASSUME LogsReliable, JournalInv, Outcome, HandedOut, [Next]_vars
    PROVE  HandedOut'
<1>1. TypeOK /\ TypeOK'
  BY TypeNext DEF JournalInv
<1>. USE DEF HandedOut, Goto, Fail, disk, ghosts, Outcomes
<1>2. CASE ArchiveLog
  <2>1. PICK id \in CounterReads(pkg), copied \in Outcomes("archive") :
          /\ \E l \in IF copied = "ok" THEN {tx[pkg]} \cup Unflushed({<<>>})
                               ELSE {archive[pkg][id], <<>>} :
                archive' = [archive EXCEPT ![pkg][id] = l]
          /\ j' = id
          /\ IF copied = "ok" THEN pc' = "index" /\ ok' = ok
                       ELSE pc' = "record" /\ ok' = 0
    BY <1>2 DEF ArchiveLog
  <2>2. id \in 1 .. TxBound /\ Unflushed({<<>>}) = {}
    BY <1>1, <1>2, CounterReadsType DEF ArchiveLog, LogsReliable, Unflushed
  <2>3. pkg \in Packages /\ archive \in [Packages -> [1 .. TxBound -> Seq(Entry) \cup {NoLog}]]
    BY <1>1 DEF TypeOK, DiskType, LocalsType
  <2>4. /\ pc = "archive" /\ UNCHANGED <<pkg, tx, pending, unfinished>>
        /\ tx[pkg] # NoLog /\ pending[pkg] = NoLog /\ unfinished = "install"
    BY <1>2 DEF ArchiveLog, JournalInv, Installing
  <2>5. CASE copied = "ok"
    <3>1. archive'[pkg][id] = tx[pkg]
      BY <2>1, <2>2, <2>3, <2>5
    <3>. QED  BY <2>1, <2>4, <2>5, <3>1
  <2>6. CASE copied # "ok"
    BY <2>1, <2>6
  <2>. QED  BY <2>5, <2>6
<1>3. CASE AppendIndex \/ WriteCounter
  <2>1. /\ pc \in {"index", "counter"} /\ UNCHANGED <<pkg, tx, pending, unfinished, archive, j>>
    BY <1>3 DEF AppendIndex, WriteCounter
  <2>. QED  BY <2>1
<1>4. CASE NoOp
  <2>1. installed' = 0
    BY <1>4 DEF NoOp, Outcome
  <2>2. pc' = "record"
    BY <1>4 DEF NoOp
  <2>. QED  BY <2>1, <2>2
<1>5. CASE RemoveCommitted \/ RenamePending \/ MarkRolledBack
  <2>1. pc' \in {"rename", "archive"} \/ (pc' = "record" /\ ok' = 0)
    BY <1>5 DEF RemoveCommitted, RenamePending, MarkRolledBack, Outcome
  <2>. QED  BY <2>1
<1>6. CASE \/ MkdirFails \/ SkipUnchanged \/ NoBackup \/ BackUp \/ Journal \/ CopyPayload
           \/ MappingsDone \/ StartUndo \/ Record \/ Crash
           \/ ReplayRestore \/ ReplayDelete \/ ReplayDone
           \/ (\E m \in Manifests : Begin(m)) \/ (\E p \in Packages : Rollback(p))
           \/ (\E p \in Packages, id \in 1 .. TxBound : RollbackTransaction(p, id))
  <2>1. pc' \notin {"index", "counter", "record"}
    BY <1>6
    DEF MkdirFails, SkipUnchanged, NoBackup, BackUp, Journal, CopyPayload, MappingsDone,
        StartUndo, Record, Crash, ReplayRestore, ReplayDelete, ReplayDone, AtMapping,
        Begin, Rollback, RollbackTransaction, StartReplay, Return
  <2>. QED  BY <2>1
<1>7. CASE UNCHANGED vars
  BY <1>7 DEF vars, locals
<1>. QED
  BY <1>2, <1>3, <1>4, <1>5, <1>6, <1>7 DEF Next, Call, InstallStep, ReplayStep
=============================================================================
