---------------------------- MODULE PackageApply ----------------------------
(***************************************************************************)
(* NxPackageManager_Apply: verify, dependencies, Install, the cmake and    *)
(* ctest phases, certification, and the rollback of the transaction when a *)
(* phase after the install fails.  It runs on top of PackageInstall, whose *)
(* Install and RollbackTransaction it calls and whose operator may still   *)
(* use them directly between two applies.                                  *)
(*                                                                         *)
(* cmake, ctest and nexiora_docs are external: they pass or fail, may leave *)
(* a warning in apply.log, and do not touch the installed files.           *)
(***************************************************************************)
EXTENDS PackageInstall, Integers

ASSUME ApplyAssumption ==
    \A m \in Manifests : /\ m.qa \in Int            \* apply.qa_repetitions
                         /\ m.artifacts \subseteq Paths \* artifact= lines

VARIABLES
    report,       \* certification-report.nxcert of each package
    phase,        \* what NxPackageManager_Apply does next
    target,       \* the package being applied
    logged,       \* result.apply_log_path is set
    changed,      \* install.files_installed
    txid,         \* install.transaction_id, 0 when empty
    warned,       \* apply.log has a warning, or a test that did not run
    qa,           \* qa_passed
    success, rolledBack, generated,
    \* history variables: the tree this Apply found, and the packages whose
    \* files somebody else may have changed since their report was written
    start, disturbed

result == <<logged, changed, txid, warned, qa, success, rolledBack, generated>>
avars  == <<vars, report, phase, target, result, start, disturbed>>

NoTarget == [id |-> "none", requires |-> {}, files |-> <<>>, qa |-> 0, artifacts |-> {}]
Status   == {"none", "blank", "CERTIFIED", "ROLLED_BACK", "REJECTED"}

FreshResult ==
    /\ logged' = 0 /\ changed' = 0 /\ txid' = 0 /\ warned' = 0 /\ qa' = 0
    /\ success' = 0 /\ rolledBack' = 0 /\ generated' = 0

AInit ==
    /\ Init
    /\ report = [p \in Packages |-> [status |-> "none", files |-> <<>>]]
    /\ phase = "idle" /\ target = NoTarget
    /\ logged = 0 /\ changed = 0 /\ txid = 0 /\ warned = 0 /\ qa = 0
    /\ success = 0 /\ rolledBack = 0 /\ generated = 0
    /\ start = file /\ disturbed = {}

-----------------------------------------------------------------------------
(* Verification, dependencies, install *)

\* On to the next phase, the package store as it is.
Enter(label) ==
    phase' = label /\ UNCHANGED <<vars, report, target, start, disturbed>>

Apply(m) ==
    /\ phase = "idle" /\ pc = "idle"
    /\ next[m.id] <= TxBound /\ Len(index[m.id]) < TxBound
    /\ phase' = "verify" /\ target' = m /\ start' = file
    /\ disturbed' = disturbed \cup (Packages \ {m.id})
    /\ FreshResult
    /\ UNCHANGED <<vars, report>>

VerifyPasses ==
    /\ phase = "verify"
    /\ Enter("dependencies") /\ logged' = 1
    /\ UNCHANGED <<changed, txid, warned, qa, success, rolledBack, generated>>

\* VerifyPackage rejects the package, before apply.log is even named.
VerifyFails == phase = "verify" /\ Enter("done") /\ UNCHANGED result

\* apply.log or its directory cannot be made.
LogFails ==
    /\ phase = "verify" /\ "log" \in Faults
    /\ Enter("done") /\ logged' \in {0, 1}
    /\ UNCHANGED <<changed, txid, warned, qa, success, rolledBack, generated>>

CheckDependencies ==
    /\ phase = "dependencies"
    /\ Enter(IF DependenciesPresent(target) THEN "install" ELSE "done")
    /\ UNCHANGED result

CallInstall ==
    /\ phase = "install"
    /\ Begin(target)
    /\ phase' = "installing"
    /\ UNCHANGED <<report, target, result, start, disturbed>>

\* archive_transaction hands out the id when all its writes succeeded.  An
\* Install that returns 0 is not rolled back by Apply.
RunInstall ==
    /\ phase = "installing"
    /\ InstallStep \/ ReplayStep
    /\ IF pc = "record"
       THEN /\ changed' = installed
            /\ txid' = IF ok = 1 /\ installed > 0 THEN j ELSE 0
            /\ phase' = IF ok = 1 THEN "configure" ELSE "done"
       ELSE UNCHANGED <<changed, txid, phase>>
    /\ UNCHANGED <<report, target, start, disturbed,
                   logged, warned, qa, success, rolledBack, generated>>

-----------------------------------------------------------------------------
(* The phases after the install *)

\* apply.qa_repetitions, at least 1 and at most 5.
Repetitions_Unclamped(m) == m.qa
Repetitions(m) == IF m.qa < 1 THEN 1 ELSE IF m.qa > 5 THEN 5 ELSE m.qa

\* A command that passes or fails and may write a warning to apply.log.
Command_NoRollback(passed, label) ==
    /\ Enter(IF passed THEN label ELSE "done")
    /\ warned' \in {warned, 1}
Command(passed, label) ==
    /\ Enter(IF passed THEN label ELSE "rollback")
    /\ warned' \in {warned, 1}

Configure ==
    /\ phase = "configure"
    /\ \E passed \in BOOLEAN : Command(passed, "build")
    /\ UNCHANGED <<logged, changed, txid, qa, success, rolledBack, generated>>

Build ==
    /\ phase = "build"
    /\ \E passed \in BOOLEAN : Command(passed, "warning-gate")
    /\ UNCHANGED <<logged, changed, txid, qa, success, rolledBack, generated>>

WarningGate ==
    /\ phase = "warning-gate"
    /\ Enter(IF warned = 1 THEN "rollback" ELSE "tests")
    /\ UNCHANGED result

\* The first ctest run and its repetitions.
RunsAfter(n) == n + 1

Tests ==
    /\ phase = "tests" \/ (phase = "qa-repeatability" /\ qa < Repetitions(target))
    /\ \E passed \in BOOLEAN :
          /\ Command(passed, "qa-repeatability")
          /\ qa' = IF passed THEN RunsAfter(qa) ELSE qa
    /\ UNCHANGED <<logged, changed, txid, success, rolledBack, generated>>

ArtifactsPresent == \A a \in target.artifacts : file[a] # Absent

Artifacts ==
    /\ phase = "qa-repeatability" /\ qa >= Repetitions(target)
    /\ Enter(IF ArtifactsPresent THEN "documentation" ELSE "rollback")
    /\ UNCHANGED result

\* "phase=apply state=completed" is logged here, before there is a report.
Documentation ==
    /\ phase = "documentation"
    /\ \E passed \in BOOLEAN :
          /\ Command(passed, "certify")
          /\ success' = IF passed THEN 1 ELSE 0
    /\ UNCHANGED <<logged, changed, txid, qa, rolledBack, generated>>

-----------------------------------------------------------------------------
(* NxPackageCertification_Generate *)

Verdict_Optimistic == IF ArtifactsPresent /\ warned = 0 THEN "CERTIFIED" ELSE "REJECTED"
Verdict ==
    IF success = 1 /\ ArtifactsPresent /\ qa = Repetitions(target) /\ warned = 0
    THEN "CERTIFIED"
    ELSE IF rolledBack = 1 THEN "ROLLED_BACK" ELSE "REJECTED"

WriteReport ==
    /\ report' = [report EXCEPT ![target.id] = [status |-> Verdict, files |-> target.files]]
    /\ generated' = 1
    /\ disturbed' = disturbed \ {target.id}

\* The directory cannot be made, or one of the two report files cannot be
\* opened after the other has been truncated.
ReportFails ==
    /\ "report" \in Faults
    /\ report' \in {report, [report EXCEPT ![target.id] = [status |-> "blank", files |-> <<>>]]}
    /\ UNCHANGED <<generated, disturbed>>

Certify ==
    /\ phase = "certify"
    /\ \/ WriteReport /\ phase' = "done" /\ UNCHANGED success
       \/ ReportFails /\ phase' = "rollback" /\ success' = 0
    /\ UNCHANGED <<vars, target, start, logged, changed, txid, warned, qa, rolledBack>>

-----------------------------------------------------------------------------
(* Rollback and return *)

NothingChanged_Assumed == TRUE
NothingChanged == changed = 0

CallRollback ==
    /\ phase = "rollback" /\ txid # 0
    /\ RollbackTransaction(target.id, txid)
    /\ phase' = "rolling"
    /\ UNCHANGED <<report, target, result, start, disturbed>>

RunRollback ==
    /\ phase = "rolling"
    /\ ReplayStep
    /\ IF pc' = "idle"
       THEN /\ rolledBack' = IF ok = 1 \/ NothingChanged THEN 1 ELSE 0
            /\ phase' = "done"
       ELSE UNCHANGED <<rolledBack, phase>>
    /\ UNCHANGED <<report, target, start, disturbed,
                   logged, changed, txid, warned, qa, success, generated>>

NoRollback ==
    /\ phase = "rollback" /\ txid = 0
    /\ Enter("done")
    /\ rolledBack' = IF NothingChanged THEN 1 ELSE 0
    /\ UNCHANGED <<logged, changed, txid, warned, qa, success, generated>>

\* The last attempt to leave a report; its failure does not matter any more.
Finish ==
    /\ phase = "done"
    /\ phase' = "returned"
    /\ IF generated = 0 /\ logged = 1
       THEN WriteReport \/ ReportFails
       ELSE UNCHANGED <<report, generated, disturbed>>
    /\ UNCHANGED <<vars, target, start, logged, changed, txid, warned, qa, success, rolledBack>>

\* The tool prints the result and exits.
Exit ==
    /\ phase = "returned"
    /\ phase' = "idle" /\ target' = NoTarget /\ start' = file
    /\ FreshResult
    /\ UNCHANGED <<vars, report, disturbed>>

\* The process dies.
Die ==
    /\ "crash" \in Faults /\ phase # "idle"
    /\ IF pc # "idle" THEN Crash ELSE UNCHANGED vars
    /\ phase' = "idle" /\ target' = NoTarget /\ start' = file
    /\ FreshResult
    /\ disturbed' = Packages
    /\ UNCHANGED report

-----------------------------------------------------------------------------
(* install, rollback and rollback-tx of the same tool, outside an apply *)

Operator ==
    /\ phase = "idle"
    /\ \/ Call /\ disturbed' = Packages
       \/ (InstallStep \/ ReplayStep \/ Crash) /\ UNCHANGED disturbed
    /\ start' = file'
    /\ UNCHANGED <<report, phase, target, result>>

ApplyStep ==
    \/ VerifyPasses \/ VerifyFails \/ LogFails \/ CheckDependencies \/ CallInstall \/ RunInstall
    \/ Configure \/ Build \/ WarningGate \/ Tests \/ Artifacts \/ Documentation \/ Certify
    \/ CallRollback \/ RunRollback \/ NoRollback \/ Finish \/ Exit

ANext == (\E m \in Manifests : Apply(m)) \/ ApplyStep \/ Die \/ Operator

\* Every command Apply waits for ends, so an Apply that has started goes on.
ASpec ==
    /\ AInit /\ [][ANext]_avars
    /\ WF_avars(ApplyStep)
    /\ WF_avars(Operator /\ (InstallStep \/ ReplayStep))

-----------------------------------------------------------------------------
(* Properties *)

ATypeOK ==
    /\ TypeOK
    /\ \A p \in Packages : report[p].status \in Status /\ report[p].files \in Seq(Mapping)
    /\ phase \in {"idle", "verify", "dependencies", "install", "installing", "configure",
                  "build", "warning-gate", "tests", "qa-repeatability",
                  "documentation", "certify", "rollback", "rolling", "done", "returned"}
    /\ target \in Manifests \cup {NoTarget}
    /\ changed \in Nat /\ txid \in 0 .. TxBound /\ qa \in 0 .. 5
    /\ {logged, warned, success, rolledBack, generated} \subseteq {0, 1}
    /\ start \in [Paths -> State] /\ disturbed \subseteq Packages

\* An Apply that fails, at whatever phase, returns with the tree it found:
\* Install undoes itself, and a later phase, the report included, undoes the
\* transaction that Install handed out.
FailedApplyRestores == phase = "returned" /\ success = 0 => file = start

\* An Apply that says it rolled back did, even when file operations of the
\* commit or of the rollback itself fail.
RollbackIsTold == phase = "returned" /\ rolledBack = 1 => file = start

\* PACKAGE_STANDARD.md:28: while nobody else touched the package's files, a
\* report that recommends Git (CERTIFIED) describes the tree: every file of the
\* package it names is in place, after later applies that failed as well.
CertificateHolds ==
    phase = "idle" /\ pc = "idle" =>
       \A p \in Packages \ disturbed :
          report[p].status = "CERTIFIED" =>
             \A k \in DOMAIN report[p].files :
                file[report[p].files[k].dst] = report[p].files[k].new

\* Every Apply returns.
ApplyReturns == (phase # "idle") ~> (phase = "idle")
=============================================================================
