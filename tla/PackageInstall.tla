--------------------------- MODULE PackageInstall ---------------------------
(***************************************************************************)
(* The transactional installer of Source/NCOS/NxPackageManager.c: Install, *)
(* Rollback and RollbackTransaction at the granularity of one file         *)
(* operation, over the files they leave on disk.  One operator runs one    *)
(* call at a time; a call may be cut by a crash between any two file       *)
(* operations, and every file operation named in Faults may fail.          *)
(*                                                                         *)
(* The BEGIN, COMMIT, ROLLED_BACK, MANUAL_ROLLBACK and HISTORICAL_ROLLBACK *)
(* lines of a log are not kept: nothing in the code reads them back.       *)
(***************************************************************************)
EXTENDS Naturals, Sequences

CONSTANTS
    Packages,      \* normalised package ids
    Paths,         \* destination files under repo_root
    Contents,      \* contents of complete files (equal hash = equal content)
    Backups,       \* file names under PackageBackups/<package>
    BackupOf,      \* the name a destination is backed up under
    Manifests,     \* package directories that VerifyPackage accepts
    InitialFiles,  \* trees the first call may find
    TxBound,       \* bound on the ids and on the lines of a history.index
    Faults,        \* the file operations that may fail
    Absent,        \* "content" of a file that is not there
    Partial,       \* content of a file whose copy was cut short
    NoLog          \* a log file that is not there

Mapping == [dst : Paths, new : Contents]
Entry   == [op : {"RESTORE", "DELETE"}, dst : Paths]
State   == Contents \cup {Partial, Absent}

ASSUME ConstantsAssumption ==
    /\ Packages # {}
    /\ BackupOf \in [Paths -> Backups]
    /\ InitialFiles \subseteq [Paths -> Contents \cup {Absent}]
    /\ \A m \in Manifests : /\ m.id \in Packages
                            /\ m.requires \subseteq Packages
                            /\ m.files \in Seq(Mapping)
                            /\ m.files # <<>>
    /\ TxBound \in Nat
    /\ Absent \notin Contents \cup {Partial}
    /\ Partial \notin Contents
    /\ NoLog \notin Seq(Entry)

VARIABLES
    \* on disk
    file,       \* [Paths -> State]: the repository tree
    backup,     \* [Packages -> [Backups -> State]]: PackageBackups
    pending,    \* transaction.pending.log of each package
    tx,         \* transaction.log of each package
    archive,    \* tx-<id>.log of each package and id
    index,      \* history.index of each package: the ids, in file order
    next,       \* next.txt of each package
    registry,   \* status= line of registry.txt of each package
    \* locals of the running call
    pc, op, pkg, files, i, installed, ok, log, j,
    \* history variables: the tree when the last install began, and whether
    \* that install (running or cut by a crash) is still the last call made
    before, unfinished

disk   == <<file, backup, pending, tx, archive, index, next, registry>>
locals == <<pc, op, pkg, files, i, installed, ok, log, j>>
ghosts == <<before, unfinished>>
vars   == <<disk, locals, ghosts>>

-----------------------------------------------------------------------------
(* Outcomes of the file helpers *)

Outcomes(f) == IF f \in Faults THEN {"ok", "failed"} ELSE {"ok"}

\* fputs and fclose results are dropped: text that never reaches the disk is
\* reported as written, and what is left of the file is one of "left".
Unflushed(left) == IF "flush" \in Faults THEN left ELSE {}

\* nx_pm_copy_file: its result and what the target then holds ("wb" truncates
\* the target before the source is copied).
CopyOutcomes(f, source, target) ==
    IF source = Absent THEN {[res |-> "failed", is |-> target]}
    ELSE {[res |-> "ok", is |-> source]}
         \cup (IF f \in Faults THEN {[res |-> "failed", is |-> target],
                                     [res |-> "failed", is |-> Partial]} ELSE {})
         \cup Unflushed({[res |-> "ok", is |-> Partial]})

\* The lines of a log; a log that is not there has none.
LinesOf(l) == IF l = NoLog THEN <<>> ELSE l

\* nx_pm_append_text on a log: "ab" creates a file that is not there.
AppendOutcomes(f, l, e) ==
    {[res |-> "ok", is |-> Append(LinesOf(l), e)]}
    \cup (IF f \in Faults THEN {[res |-> "failed", is |-> l]} ELSE {})
    \cup Unflushed({[res |-> "ok", is |-> LinesOf(l)]})

\* nx_pm_read_next_transaction: a counter that cannot be read counts as 1.
CounterReads_Ignored(p) == {1}
CounterReads(p) == {next[p]} \cup (IF "counter" \in Faults THEN {1} ELSE {})

-----------------------------------------------------------------------------
Init ==
    /\ file \in InitialFiles
    /\ backup = [p \in Packages |-> [b \in Backups |-> Absent]]
    /\ pending = [p \in Packages |-> NoLog]
    /\ tx = [p \in Packages |-> NoLog]
    /\ archive = [p \in Packages |-> [n \in 1 .. TxBound |-> NoLog]]
    /\ index = [p \in Packages |-> <<>>]
    /\ next = [p \in Packages |-> 1]
    /\ registry = [p \in Packages |-> "none"]
    /\ pc = "idle" /\ op = "none" /\ pkg = CHOOSE p \in Packages : TRUE
    /\ files = <<>> /\ i = 1 /\ installed = 0 /\ ok = 1 /\ log = <<>> /\ j = 1
    /\ before = file /\ unfinished = "none"

\* The call is over: its locals are gone.
Return ==
    /\ pc' = "idle" /\ op' = "none" /\ files' = <<>> /\ i' = 1 /\ installed' = 0
    /\ ok' = 1 /\ log' = <<>> /\ j' = 1
    /\ UNCHANGED pkg

Goto(label) ==
    /\ pc' = label
    /\ UNCHANGED <<op, pkg, files, i, installed, ok, log, j>>

Fail(label) ==
    /\ pc' = label /\ ok' = 0
    /\ UNCHANGED <<op, pkg, files, i, installed, log, j>>

-----------------------------------------------------------------------------
(* NxPackageManager_Install.  A definition whose name has a suffix after an *)
(* underscore is a faulty variant of the one that follows it; only the      *)
(* mutation tests of the properties use it.                                 *)

\* VerifyDependencies: a registry.txt is enough, whatever its status.
DependenciesPresent(m) == \A r \in m.requires : registry[r] # "none"

Begin(m) ==
    /\ pc = "idle"
    /\ DependenciesPresent(m)
    /\ next[m.id] <= TxBound /\ Len(index[m.id]) < TxBound
    /\ \E begun \in Outcomes("begin") :
          pending' = IF begun = "ok" THEN [pending EXCEPT ![m.id] = <<>>] ELSE pending
    /\ \E opened \in Outcomes("open") :
          /\ ok' = IF opened = "ok" THEN 1 ELSE 0
          /\ pc' = IF opened = "ok" THEN "map" ELSE "failed"
    /\ op' = "install" /\ pkg' = m.id /\ files' = m.files
    /\ i' = 1 /\ installed' = 0 /\ log' = <<>> /\ j' = 1
    /\ before' = file /\ unfinished' = "install"
    /\ UNCHANGED <<file, backup, tx, archive, index, next, registry>>

dst == files[i].dst
AtMapping == pc = "map" /\ i <= Len(files)

\* The hashes of source and destination agree.
UpToDate_Exists == file[dst] # Absent
UpToDate == file[dst] = files[i].new

\* The parent directory of the destination cannot be made.
MkdirFails ==
    /\ AtMapping /\ "failed" \in Outcomes("mkdir")
    /\ Fail("failed")
    /\ UNCHANGED <<disk, ghosts>>

SkipUnchanged ==
    /\ AtMapping /\ UpToDate
    /\ i' = i + 1
    /\ UNCHANGED <<disk, pc, op, pkg, files, installed, ok, log, j, ghosts>>

BackUp ==
    /\ AtMapping /\ ~UpToDate /\ file[dst] # Absent
    /\ \E r \in CopyOutcomes("backup", file[dst], backup[pkg][BackupOf[dst]]) :
          /\ backup' = [backup EXCEPT ![pkg][BackupOf[dst]] = r.is]
          /\ IF r.res = "ok" THEN Goto("journal") ELSE Fail("failed")
    /\ UNCHANGED <<file, pending, tx, archive, index, next, registry, ghosts>>

\* A destination that is not there needs no backup, only its journal line.
NoBackup ==
    /\ AtMapping /\ ~UpToDate /\ file[dst] = Absent
    /\ Goto("journal")
    /\ UNCHANGED <<disk, ghosts>>

JournalLine_Restore == [op |-> "RESTORE", dst |-> dst]
JournalLine ==
    [op |-> IF file[dst] = Absent THEN "DELETE" ELSE "RESTORE", dst |-> dst]

Journal ==
    /\ pc = "journal"
    /\ \E r \in AppendOutcomes("journal", pending[pkg], JournalLine) :
          /\ pending' = [pending EXCEPT ![pkg] = r.is]
          /\ IF r.res = "ok" THEN Goto("copy") ELSE Fail("failed")
    /\ UNCHANGED <<file, backup, tx, archive, index, next, registry, ghosts>>

CopyPayload ==
    /\ pc = "copy"
    /\ \E r \in CopyOutcomes("copy", files[i].new, file[dst]) :
          /\ file' = [file EXCEPT ![dst] = r.is]
          /\ IF r.res = "ok"
             THEN /\ pc' = "map" /\ i' = i + 1 /\ installed' = installed + 1
                  /\ UNCHANGED <<op, pkg, files, ok, log, j>>
             ELSE Fail("failed")
    /\ UNCHANGED <<backup, pending, tx, archive, index, next, registry, ghosts>>

MappingsDone ==
    /\ pc = "map" /\ i > Len(files)
    /\ Goto(IF installed > 0 THEN "commit" ELSE "noop")
    /\ UNCHANGED <<disk, ghosts>>

NoOp_Commits ==
    /\ pc = "noop"
    /\ tx' = [tx EXCEPT ![pkg] = pending[pkg]]
    /\ pending' = [pending EXCEPT ![pkg] = NoLog]
    /\ unfinished' = "none"
    /\ Goto("record")
    /\ UNCHANGED <<file, backup, archive, index, next, registry, before>>

\* "A no-op installation must not destroy the last rollbackable transaction."
NoOp ==
    /\ pc = "noop"
    /\ \E removed \in Outcomes("noop") :
          pending' = IF removed = "ok" THEN [pending EXCEPT ![pkg] = NoLog] ELSE pending
    /\ unfinished' = "none"
    /\ Goto("record")
    /\ UNCHANGED <<file, backup, tx, archive, index, next, registry, before>>

\* COMMIT is appended, then nx_pm_commit_transaction removes the committed log
\* (its result is dropped) ...
RemoveCommitted ==
    /\ pc = "commit"
    /\ \E marked \in Outcomes("commit"), removed \in Outcomes("commit") :
          /\ pending' = IF marked = "ok" THEN [pending EXCEPT ![pkg] = LinesOf(@)] ELSE pending
          /\ tx' = IF marked = "ok" /\ removed = "ok" THEN [tx EXCEPT ![pkg] = NoLog] ELSE tx
          /\ IF marked = "ok" THEN Goto("rename") ELSE Fail("record")
    /\ UNCHANGED <<file, backup, archive, index, next, registry, ghosts>>

\* ... and renames the pending one over it.
RenamePending ==
    /\ pc = "rename"
    /\ \E renamed \in Outcomes("commit") :
          IF renamed = "ok"
          THEN /\ tx' = [tx EXCEPT ![pkg] = pending[pkg]]
               /\ pending' = [pending EXCEPT ![pkg] = NoLog]
               /\ Goto("archive")
          ELSE UNCHANGED <<tx, pending>> /\ Fail("record")
    /\ UNCHANGED <<file, backup, archive, index, next, registry, ghosts>>

(* nx_pm_archive_transaction: the copy, the index line, then the counter *)

ArchiveLog ==
    /\ pc = "archive"
    /\ \E id \in CounterReads(pkg), copied \in Outcomes("archive") :
          /\ \E l \in IF copied = "ok" THEN {tx[pkg]} \cup Unflushed({<<>>})
                               ELSE {archive[pkg][id], <<>>} :
                archive' = [archive EXCEPT ![pkg][id] = l]
          /\ j' = id
          /\ IF copied = "ok" THEN pc' = "index" /\ ok' = ok
                       ELSE pc' = "record" /\ ok' = 0
    /\ UNCHANGED <<file, backup, pending, tx, index, next, registry,
                   op, pkg, files, i, installed, log, ghosts>>

AppendIndex ==
    /\ pc = "index"
    /\ \E appended \in Outcomes("index") :
          \E ids \in IF appended = "ok" THEN {Append(index[pkg], j)} \cup Unflushed({index[pkg]})
                      ELSE {index[pkg]} :
             /\ index' = [index EXCEPT ![pkg] = ids]
             /\ IF appended = "ok" THEN Goto("counter") ELSE Fail("record")
    /\ UNCHANGED <<file, backup, pending, tx, archive, next, registry, ghosts>>

IdAfter_Same(id) == id
IdAfter_Skips(id) == id + 2
IdAfter(id) == id + 1

WriteCounter ==
    /\ pc = "counter"
    /\ \E written \in Outcomes("counter") :
          \E n \in IF written = "ok" THEN {IdAfter(j)} \cup Unflushed({1}) ELSE {next[pkg]} :
             /\ next' = [next EXCEPT ![pkg] = n]
             /\ IF written = "ok" THEN Goto("record") ELSE Fail("record")
    /\ UNCHANGED <<file, backup, pending, tx, archive, index, registry, ghosts>>

(* the error path: nx_pm_rollback_transaction over the pending log *)

StartUndo ==
    /\ pc = "failed"
    /\ log' = LinesOf(pending[pkg]) /\ j' = 1 /\ pc' = "replay"
    /\ UNCHANGED <<disk, op, pkg, files, i, installed, ok, ghosts>>

\* ROLLED_BACK is appended to the pending log, which stays where it is.
MarkRolledBack ==
    /\ pc = "undone"
    /\ \E marked \in Outcomes("mark") :
          pending' = IF marked = "ok" THEN [pending EXCEPT ![pkg] = LinesOf(@)] ELSE pending
    /\ Goto("record")
    /\ UNCHANGED <<file, backup, tx, archive, index, next, registry, ghosts>>

\* registry.txt is written whatever happened to the files.
Record ==
    /\ pc = "record"
    /\ \E written \in Outcomes("registry") :
          \E status \in IF written = "ok"
                         THEN {IF ok = 1 THEN "installed" ELSE "rolled_back"}
                              \cup Unflushed({"blank"})
                         ELSE {registry[pkg]} :
             registry' = [registry EXCEPT ![pkg] = status]
    /\ unfinished' = "none" /\ before' = file
    /\ Return
    /\ UNCHANGED <<file, backup, pending, tx, archive, index, next>>

-----------------------------------------------------------------------------
(* nx_pm_rollback_transaction: the lines in file order, past any failure *)

LineLeft_OffByOne == j < Len(log)
LineLeft == j <= Len(log)
NextLine_Same == j
NextLine == j + 1

ReplayRestore ==
    /\ pc = "replay" /\ LineLeft /\ log[j].op = "RESTORE"
    /\ LET d == log[j].dst
       IN  \E r \in CopyOutcomes("restore", backup[pkg][BackupOf[d]], file[d]) :
              /\ file' = [file EXCEPT ![d] = r.is]
              /\ ok' = IF r.res = "ok" THEN ok ELSE 0
    /\ j' = NextLine
    /\ UNCHANGED <<backup, pending, tx, archive, index, next, registry,
                   pc, op, pkg, files, i, installed, log, ghosts>>

ReplayDelete ==
    /\ pc = "replay" /\ LineLeft /\ log[j].op = "DELETE"
    /\ LET d == log[j].dst
       IN  \E removed \in Outcomes("restore") :
              /\ file' = IF removed = "ok" THEN [file EXCEPT ![d] = Absent] ELSE file
              /\ ok' = IF removed = "ok" \/ file[d] = Absent THEN ok ELSE 0
    /\ j' = NextLine
    /\ UNCHANGED <<backup, pending, tx, archive, index, next, registry,
                   pc, op, pkg, files, i, installed, log, ghosts>>

ReplayDone ==
    /\ pc = "replay" /\ ~LineLeft
    /\ IF op = "install" THEN Goto("undone") ELSE Return
    /\ UNCHANGED <<disk, ghosts>>

(* NxPackageManager_Rollback and NxPackageManager_RollbackTransaction *)

StartReplay(name, p, l) ==
    /\ pc = "idle" /\ l # NoLog
    /\ pc' = "replay" /\ op' = name /\ pkg' = p /\ log' = l /\ j' = 1 /\ ok' = 1
    /\ unfinished' = "none" /\ before' = file
    /\ UNCHANGED <<disk, files, i, installed>>

Rollback(p) == StartReplay("rollback", p, tx[p])
RollbackTransaction(p, id) == StartReplay("rollback_tx", p, archive[p][id])

\* The process dies between two file operations; nothing reads the pending log
\* when the next call starts.
Crash ==
    /\ "crash" \in Faults /\ pc # "idle"
    /\ Return
    /\ UNCHANGED <<disk, ghosts>>

-----------------------------------------------------------------------------
Call ==
    \/ \E m \in Manifests : Begin(m)
    \/ \E p \in Packages : Rollback(p)
    \/ \E p \in Packages, id \in 1 .. TxBound : RollbackTransaction(p, id)

InstallStep ==
    \/ MkdirFails \/ SkipUnchanged \/ BackUp \/ NoBackup \/ Journal \/ CopyPayload
    \/ MappingsDone \/ NoOp \/ RemoveCommitted \/ RenamePending
    \/ ArchiveLog \/ AppendIndex \/ WriteCounter
    \/ StartUndo \/ MarkRolledBack \/ Record

ReplayStep == ReplayRestore \/ ReplayDelete \/ ReplayDone

Next == Call \/ InstallStep \/ ReplayStep \/ Crash

\* A call that has started runs on until it returns; nobody has to make one.
Spec == Init /\ [][Next]_vars /\ WF_vars(InstallStep \/ ReplayStep)

-----------------------------------------------------------------------------
(* Properties *)

DiskType ==
    /\ file \in [Paths -> State]
    /\ backup \in [Packages -> [Backups -> State]]
    /\ pending \in [Packages -> Seq(Entry) \cup {NoLog}]
    /\ tx \in [Packages -> Seq(Entry) \cup {NoLog}]
    /\ archive \in [Packages -> [1 .. TxBound -> Seq(Entry) \cup {NoLog}]]
    /\ index \in [Packages -> Seq(1 .. TxBound)]
    /\ next \in [Packages -> 1 .. TxBound + 1]
    /\ registry \in [Packages -> {"none", "installed", "rolled_back", "blank"}]

LocalsType ==
    /\ pc \in {"idle", "map", "journal", "copy", "noop", "commit", "rename",
               "archive", "index", "counter", "failed", "replay", "undone", "record"}
    /\ op \in {"none", "install", "rollback", "rollback_tx"}
    /\ pkg \in Packages
    /\ files \in Seq(Mapping)
    /\ i \in Nat /\ i >= 1 /\ installed \in Nat /\ ok \in {0, 1}
    /\ log \in Seq(Entry) /\ j \in Nat /\ j >= 1
    /\ before \in [Paths -> State] /\ unfinished \in {"none", "install"}

InRange ==
    /\ pc \in {"journal", "copy"} => i <= Len(files)
    /\ pc \in {"map", "journal", "copy", "noop", "commit", "rename", "archive"} =>
          next[pkg] <= TxBound
    /\ pc \in {"index", "counter"} => j <= TxBound

\* Every variable keeps its range, and no step indexes the manifest past its
\* last mapping or the history past TxBound.
TypeOK ==
    /\ DiskType
    /\ LocalsType
    /\ InRange

\* The log that tells what the last install did: the pending one until it is
\* renamed, then the committed one.
LastLog == IF pending[pkg] # NoLog THEN pending[pkg] ELSE tx[pkg]

\* Replaying l for package p would give each file it names its content in t.
Undoes(l, p, t) ==
    \A k \in DOMAIN l :
       LET d == l[k].dst
       IN  IF l[k].op = "RESTORE"
           THEN t[d] # Absent /\ backup[p][BackupOf[d]] = t[d]
           ELSE t[d] = Absent

Named(l, d) == \E k \in DOMAIN l : l[k].dst = d

\* Every file that differs from t is named in l.
Covers(l, t) == \A d \in Paths : file[d] # t[d] => Named(l, d)

\* Write-ahead: at every instant of an install, and after a crash in the middle
\* of one, the log on disk names every file the install touched and its backups
\* hold what those files were (a journal line is written before the copy it
\* covers, a backup before its journal line).
JournalCovers ==
    unfinished = "install" => /\ LastLog # NoLog
               /\ Undoes(LastLog, pkg, before)
               /\ Covers(LastLog, before)

\* An install that failed while copying has put the whole tree back by the time
\* it reports rolled_back, whichever file operation failed and however far it
\* had come.
FailureRestores == pc = "undone" => file = before

\* All or nothing: an install that is about to record its result has either
\* every mapping in place or the tree it found.
AllOrNothing ==
    pc = "record" =>
       IF ok = 1 THEN \A k \in DOMAIN files : file[files[k].dst] = files[k].new
             ELSE file = before

\* Ids are used once, in order, below the counter, and each has its log.
HistoryOrdered ==
    \A p \in Packages :
       /\ \A a, b \in DOMAIN index[p] : a < b => index[p][a] < index[p][b]
       /\ \A a \in DOMAIN index[p] :
             /\ archive[p][index[p][a]] # NoLog
             /\ index[p][a] < next[p] \/ (pc = "counter" /\ pkg = p /\ j = index[p][a])

\* The archived log of a transaction in the history is never rewritten.
HistoryKept ==
    [][\A p \in Packages : \A a \in DOMAIN index[p] :
          archive'[p][index[p][a]] = archive[p][index[p][a]]]_vars

\* Every call returns: no replay or manifest loop runs forever.
CallsReturn == (pc # "idle") ~> (pc = "idle")

-----------------------------------------------------------------------------
(* The inductive strengthening of JournalCovers and FailureRestores, used by *)
(* PackageJournalProofs                                                      *)

\* No write of the log is lost silently.
LogsReliable == {"begin", "flush"} \cap Faults = {}

\* No replayed line fails.
ReplayReliable == "restore" \notin Faults

\* No two mappings share a destination or a backup name.
OwnBackups(fs) ==
    \A k, n \in DOMAIN fs : k # n => BackupOf[fs[k].dst] # BackupOf[fs[n].dst]
DistinctBackups == \A m \in Manifests : OwnBackups(m.files)

\* The labels at which the pending log is the log of the running install.
Undoable == {"map", "journal", "copy", "noop", "commit", "rename", "failed", "undone"}

Installing ==
    /\ op = "install" => OwnBackups(files)
    /\ pc \in Undoable => op = "install"
    /\ pc \in Undoable \/ (pc = "replay" /\ op = "install") =>
          pending[pkg] # NoLog /\ unfinished = "install"
    /\ pc \in {"archive", "index", "counter"} =>
          pending[pkg] = NoLog /\ tx[pkg] # NoLog /\ unfinished = "install"
    /\ pc = "replay" /\ op # "install" => unfinished = "none"

\* The pending log names mappings the loop has passed, or is copying.
Journalled ==
    /\ pc \in {"map", "journal", "copy"} =>
          \A k \in DOMAIN pending[pkg] :
             \E n \in DOMAIN files :
                /\ n < i \/ (n = i /\ pc = "copy")
                /\ pending[pkg][k].dst = files[n].dst
    /\ pc = "journal" /\ file[dst] # Absent => backup[pkg][BackupOf[dst]] = file[dst]
    /\ pc = "copy" => Named(pending[pkg], dst)

\* What the replay of a failed install has not put back is in the lines left.
Replayed ==
    /\ pc = "replay" /\ op = "install" => log = pending[pkg]
    /\ ReplayReliable =>
          /\ pc = "replay" /\ op = "install" =>
                \A d \in Paths : file[d] # before[d] =>
                   \E k \in j .. Len(log) : log[k].dst = d
          /\ FailureRestores

JournalInv == TypeOK /\ Installing /\ Journalled /\ Replayed /\ JournalCovers
=============================================================================
