-------------------------- MODULE NcosToolsProofs --------------------------
(***************************************************************************)
(* Theorems about the four engines behind the tools, each for any run ids,  *)
(* names, files and sizes, with writes that are cut and processes that die, *)
(* and about the tools together.                                            *)
(***************************************************************************)
EXTENDS NcosTools, WellFoundedInduction, TLAPS

------------------------------------------------------------------------------
(* The patch pipeline *)

\* An approved record names a proposal that was approved under its id.
ApprovedWasSigned ==
  \A id \in RunIds :
    approvals[id].status = "approved" /\ approvals[id].proposal \notin {None, Garbled}
      => approvals[id].proposal \in approved[id]

PatchInv == PatchTypeOK /\ ApprovedWasSigned /\ StagedWasApproved

\* A write leaves a record whose fields are those written, missing or garbled.
LEMMA LeftRecord ==
  ASSUME NEW statuses, NEW r \in Records(statuses), NEW left \in Left(r)
  PROVE  /\ left \in Records(statuses)
         /\ left.status \in {r.status, None, Garbled}
         /\ left.proposal \in {r.proposal, None, Garbled}
<1>1. /\ r.status \in statuses \cup {None, Garbled}
      /\ r.proposal \in Paths \cup {None, Garbled}
      /\ r = [status |-> r.status, proposal |-> r.proposal]
  BY DEF Records
<1>2. left \in {r, Blank, [status |-> Garbled, proposal |-> None],
                [status |-> r.status, proposal |-> None],
                [status |-> r.status, proposal |-> Garbled]}
  BY <1>1 DEF Left, Blank
<1>. QED  BY <1>1, <1>2 DEF Records, Blank

\* The proposal an engine reads off a record is a path or cut short.
LEMMA ProposalRead ==
  ASSUME NEW statuses, NEW r \in Records(statuses)
  PROVE  ProposalOf(r) \in Paths \cup {Garbled}
BY DEF Records, ProposalOf, Paths

\* What Request, Approve and Reject leave of the approval of id.
LEMMA WrittenApproval ==
  ASSUME PatchTypeOK, NEW id \in RunIds, NEW r \in Approvals, WriteApproval(id, r)
  PROVE  /\ approvals' \in [RunIds -> Approvals]
         /\ approvals'[id].status \in {r.status, None, Garbled}
         /\ approvals'[id].proposal \in {r.proposal, None, Garbled}
         /\ \A other \in RunIds \ {id} : approvals'[other] = approvals[other]
<1>1. PICK left \in Left(r) : approvals' = [approvals EXCEPT ![id] = left]
  BY DEF WriteApproval
<1>2. /\ left \in Approvals
      /\ left.status \in {r.status, None, Garbled}
      /\ left.proposal \in {r.proposal, None, Garbled}
  BY LeftRecord DEF Approvals
<1>. QED  BY <1>1, <1>2 DEF PatchTypeOK

\* The pipeline starts with nothing approved and nothing staged.
LEMMA PatchInitInv == PatchInit => PatchInv
BY DEF PatchInit, PatchInv, PatchTypeOK, ApprovedWasSigned, StagedWasApproved, Blank,
       Approvals, Applications, Records, Evidence, Reports, None, Garbled

\* Every step keeps what approvals and applications name among what was approved.
LEMMA PatchStepInv == PatchInv /\ [PatchNext]_patchVars => PatchInv'
<1>. SUFFICES ASSUME PatchInv, [PatchNext]_patchVars PROVE PatchInv'
  OBVIOUS
<1>. USE DEF PatchInv
<1>1. ASSUME NEW p \in Proposals, CreateProposal(p) PROVE PatchInv'
  BY <1>1 DEF CreateProposal, PatchTypeOK, ApprovedWasSigned, StagedWasApproved
<1>2. ASSUME NEW id \in RunIds, NEW p \in Proposals, Request(id, p) PROVE PatchInv'
  <2>. DEFINE r == [status |-> "pending", proposal |-> p]
  <2>1. r \in Approvals /\ r.status = "pending"
    BY DEF Approvals, Records, Paths
  <2>. HIDE DEF r
  <2>2. WriteApproval(id, r) /\ UNCHANGED approved
    BY <1>2 DEF Request, r
  <2>3. /\ approvals' \in [RunIds -> Approvals]
        /\ approvals'[id].status \in {"pending", None, Garbled}
        /\ \A other \in RunIds \ {id} : approvals'[other] = approvals[other]
    BY <2>1, <2>2, WrittenApproval
  <2>4. UNCHANGED <<proposals, applications, evidence, reports, approved>>
    BY <2>2 DEF WriteApproval
  <2>. QED
    BY <2>3, <2>4 DEF PatchTypeOK, ApprovedWasSigned, StagedWasApproved, None, Garbled
<1>3. ASSUME NEW id \in RunIds, Approve(id) PROVE PatchInv'
  <2>. DEFINE p == ProposalOf(approvals[id])
              r == [status |-> "approved", proposal |-> p]
  <2>1. p \in Paths \cup {Garbled}
    BY ProposalRead DEF PatchTypeOK, Approvals
  <2>2. r \in Approvals /\ r.proposal = p
    BY <2>1 DEF Approvals, Records
  <2>3. /\ WriteApproval(id, r)
        /\ approved' = [approved EXCEPT ![id] = approved[id] \cup {p}]
    BY <1>3 DEF Approve
  <2>. HIDE DEF p, r
  <2>4. /\ approvals' \in [RunIds -> Approvals]
        /\ approvals'[id].proposal \in {p, None, Garbled}
        /\ \A other \in RunIds \ {id} : approvals'[other] = approvals[other]
    BY <2>2, <2>3, WrittenApproval
  <2>5. UNCHANGED <<proposals, applications, evidence, reports>>
    BY <2>3 DEF WriteApproval
  <2>6. PatchTypeOK'
    BY <2>1, <2>3, <2>4, <2>5 DEF PatchTypeOK
  <2>7. ApprovedWasSigned' /\ StagedWasApproved'
    BY <2>3, <2>4, <2>5 DEF PatchTypeOK, ApprovedWasSigned, StagedWasApproved
  <2>. QED  BY <2>6, <2>7
<1>4. ASSUME NEW id \in RunIds, Reject(id) PROVE PatchInv'
  <2>. DEFINE r == [status |-> "rejected", proposal |-> ProposalOf(approvals[id])]
  <2>1. ProposalOf(approvals[id]) \in Paths \cup {Garbled}
    BY ProposalRead DEF PatchTypeOK, Approvals
  <2>2. r \in Approvals /\ r.status = "rejected"
    BY <2>1 DEF Approvals, Records
  <2>3. WriteApproval(id, r) /\ UNCHANGED approved
    BY <1>4 DEF Reject
  <2>. HIDE DEF r
  <2>4. /\ approvals' \in [RunIds -> Approvals]
        /\ approvals'[id].status \in {"rejected", None, Garbled}
        /\ \A other \in RunIds \ {id} : approvals'[other] = approvals[other]
    BY <2>2, <2>3, WrittenApproval
  <2>5. UNCHANGED <<proposals, applications, evidence, reports, approved>>
    BY <2>3 DEF WriteApproval
  <2>. QED
    BY <2>4, <2>5 DEF PatchTypeOK, ApprovedWasSigned, StagedWasApproved, None, Garbled
<1>5. ASSUME NEW id \in RunIds, Run(id) PROVE PatchInv'
  <2>. DEFINE p == ProposalOf(approvals[id])
              r == [status |-> "staged_for_review", proposal |-> p]
  <2>1. p \in Proposals /\ approvals[id].status = "approved"
    BY <1>5 DEF Run, PatchTypeOK
  <2>2. p = approvals[id].proposal /\ p \notin {None, Garbled}
    BY <2>1, PatchAssumption DEF ProposalOf
  <2>3. p \in approved[id]
    BY <2>1, <2>2 DEF ApprovedWasSigned
  <2>4. r \in Applications /\ r.proposal = p
    BY <2>1 DEF Applications, Records, Paths
  <2>5. PICK left \in Left(r) : applications' = [applications EXCEPT ![id] = left]
    BY <1>5 DEF Run
  <2>. HIDE DEF p, r
  <2>6. left \in Applications /\ left.proposal \in {p, None, Garbled}
    BY <2>4, <2>5, LeftRecord DEF Applications
  <2>7. UNCHANGED <<proposals, approvals, evidence, reports, approved>>
    BY <1>5 DEF Run
  <2>8. PatchTypeOK' /\ ApprovedWasSigned'
    BY <2>5, <2>6, <2>7 DEF PatchTypeOK, ApprovedWasSigned
  <2>9. StagedWasApproved'
    BY <2>3, <2>5, <2>6, <2>7 DEF PatchTypeOK, StagedWasApproved
  <2>. QED  BY <2>8, <2>9
<1>6. ASSUME NEW id \in RunIds, WriteEvidence(id) PROVE PatchInv'
  BY <1>6 DEF WriteEvidence, PatchTypeOK, ApprovedWasSigned, StagedWasApproved
<1>7. ASSUME NEW id \in RunIds, Verify(id) PROVE PatchInv'
  <2>1. PICK status \in {"PROMOTABLE", "BLOCKED"} :
           reports' = [reports EXCEPT ![id] =
                         [status |-> status,
                          applicationFound |-> evidence[id].application # None,
                          staged |-> Staged(id)]]
    BY <1>7 DEF Verify
  <2>2. Staged(id) \in BOOLEAN
    BY DEF Staged
  <2>3. [status |-> status, applicationFound |-> evidence[id].application # None,
         staged |-> Staged(id)] \in Reports
    BY <2>2 DEF Reports
  <2>4. UNCHANGED <<proposals, approvals, applications, evidence, approved>>
    BY <1>7 DEF Verify
  <2>. QED
    BY <2>1, <2>3, <2>4 DEF PatchTypeOK, ApprovedWasSigned, StagedWasApproved
<1>8. ASSUME UNCHANGED patchVars PROVE PatchInv'
  BY <1>8 DEF patchVars, PatchTypeOK, ApprovedWasSigned, StagedWasApproved
<1>. QED
  BY <1>1, <1>2, <1>3, <1>4, <1>5, <1>6, <1>7, <1>8 DEF PatchNext, PatchStep

\* The records of the pipeline keep their form.
THEOREM PatchTypeCorrect == PatchSpec => []PatchTypeOK
<1>. PatchInv => PatchTypeOK
  BY DEF PatchInv
<1>. QED  BY PatchInitInv, PatchStepInv, PTL DEF PatchSpec

\* What is staged for review was approved under its run id, whatever was
\* requested, rejected, requested again or cut short in between.
THEOREM StagingNeedsApproval == PatchSpec => []StagedWasApproved
<1>. PatchInv => StagedWasApproved
  BY DEF PatchInv
<1>. QED  BY PatchInitInv, PatchStepInv, PTL DEF PatchSpec

------------------------------------------------------------------------------
(* Workspaces *)

\* While Create runs there is no manifest, and what it counts as copied is
\* whole and safe; when none runs nothing is left to copy.
MakerInv ==
  /\ maker.busy => manifest.state = "absent"
  /\ ~maker.busy => maker.left = {} /\ maker.copied = {}
  /\ \A f \in maker.copied : copies[f] = "whole" /\ f \notin Unsafe

WorkspaceInv == WorkspaceTypeOK /\ MakerInv /\ ReadyIsWhole

\* The fields of the running Create.
LEMMA MakerType ==
  ASSUME WorkspaceTypeOK
  PROVE  /\ maker.busy \in BOOLEAN /\ maker.left \subseteq Files /\ maker.copied \subseteq Files
         /\ maker = [busy |-> maker.busy, left |-> maker.left, copied |-> maker.copied]
BY DEF WorkspaceTypeOK

\* The fields of the manifest.
LEMMA ManifestType ==
  ASSUME WorkspaceTypeOK
  PROVE  /\ manifest.state \in WorkspaceStates \cup {"absent", "cut"}
         /\ manifest.files \subseteq Files
         /\ manifest = [state |-> manifest.state, files |-> manifest.files]
BY DEF WorkspaceTypeOK, Manifests

\* A repository without workspaces.
LEMMA WorkspaceInitInv == WorkspaceInit => WorkspaceInv
<1>. SUFFICES ASSUME WorkspaceInit PROVE WorkspaceInv
  OBVIOUS
<1>1. NoManifest \in Manifests /\ NoManifest.state = "absent" /\ NoManifest.files = {}
  BY DEF NoManifest, Manifests
<1>2. /\ NoMaker \in [busy: BOOLEAN, left: SUBSET Files, copied: SUBSET Files]
      /\ ~NoMaker.busy /\ NoMaker.left = {} /\ NoMaker.copied = {}
  BY DEF NoMaker
<1>. QED
  BY <1>1, <1>2 DEF WorkspaceInit, WorkspaceInv, WorkspaceTypeOK, MakerInv, ReadyIsWhole

\* Every step of Create, Close and Clean, finished or cut.
LEMMA WorkspaceStepInv == WorkspaceInv /\ [WorkspaceNext]_workspaceVars => WorkspaceInv'
<1>. SUFFICES ASSUME WorkspaceInv, [WorkspaceNext]_workspaceVars PROVE WorkspaceInv'
  OBVIOUS
<1>. USE MakerType, ManifestType DEF WorkspaceInv
<1>1. ASSUME NEW list \in SUBSET Files, CreateWorkspace(list) PROVE WorkspaceInv'
  BY <1>1 DEF CreateWorkspace, WorkspaceTypeOK, MakerInv, ReadyIsWhole
<1>2. ASSUME NEW f \in Files, Skip(f) PROVE WorkspaceInv'
  <2>1. maker' = [busy |-> maker.busy, left |-> maker.left \ {f}, copied |-> maker.copied]
    BY <1>2 DEF Skip
  <2>2. f \in maker.left /\ UNCHANGED <<present, copies, manifest, gutted>>
    BY <1>2 DEF Skip
  <2>. QED  BY <2>1, <2>2 DEF WorkspaceTypeOK, MakerInv, ReadyIsWhole
<1>3. ASSUME NEW f \in Files, Copy(f) PROVE WorkspaceInv'
  <2>1. maker' = [busy |-> maker.busy, left |-> maker.left \ {f},
                  copied |-> maker.copied \cup {f}]
    BY <1>3 DEF Copy
  <2>2. /\ f \in maker.left /\ f \notin Unsafe
        /\ copies' = [copies EXCEPT ![f] = "whole"]
        /\ UNCHANGED <<present, manifest, gutted>>
    BY <1>3 DEF Copy
  <2>3. maker.busy
    BY <2>2 DEF MakerInv
  <2>. QED
    BY <2>1, <2>2, <2>3 DEF WorkspaceTypeOK, MakerInv, ReadyIsWhole, WorkspaceStates
<1>4. ASSUME NEW f \in Files, CopyFails(f) PROVE WorkspaceInv'
  <2>1. maker.busy
    BY <1>4 DEF CopyFails, MakerInv
  <2>. QED
    BY <1>4, <2>1 DEF CopyFails, NoMaker, WorkspaceTypeOK, MakerInv, ReadyIsWhole,
                      WorkspaceStates
<1>5. ASSUME WriteManifest PROVE WorkspaceInv'
  <2>1. /\ manifest' \in {CutManifest, [state |-> "READY", files |-> {}],
                          [state |-> "READY", files |-> maker.copied]}
        /\ maker' = NoMaker /\ UNCHANGED <<present, copies, gutted>>
    BY <1>5 DEF WriteManifest
  <2>. QED
    BY <2>1 DEF CutManifest, NoMaker, WorkspaceTypeOK, MakerInv, ReadyIsWhole,
                WorkspaceStates, Manifests
<1>6. ASSUME StopCreate PROVE WorkspaceInv'
  BY <1>6 DEF StopCreate, NoMaker, WorkspaceTypeOK, MakerInv, ReadyIsWhole
<1>7. ASSUME CloseWorkspace PROVE WorkspaceInv'
  <2>1. /\ ~maker.busy /\ manifest.state = "READY"
        /\ manifest' \in {CutManifest, [state |-> "CLOSED", files |-> {}],
                          [state |-> "CLOSED", files |-> manifest.files]}
        /\ UNCHANGED <<present, copies, maker, gutted>>
    BY <1>7 DEF CloseWorkspace
  <2>. QED
    BY <2>1 DEF CutManifest, WorkspaceTypeOK, MakerInv, ReadyIsWhole, WorkspaceStates,
                Manifests
<1>8. ASSUME CleanWorkspace PROVE WorkspaceInv'
  BY <1>8 DEF CleanWorkspace, NoManifest, WorkspaceTypeOK, MakerInv, ReadyIsWhole,
              WorkspaceStates, Manifests
<1>9. ASSUME CleanStops PROVE WorkspaceInv'
  <2>1. PICK gone \in SUBSET Files :
           copies' = [f \in Files |-> IF f \in gone THEN "none" ELSE copies[f]]
    BY <1>9 DEF CleanStops
  <2>2. /\ ~maker.busy /\ UNCHANGED <<present, maker>>
        /\ manifest' \in {manifest, NoManifest}
        /\ gutted' = (manifest'.state # "absent")
    BY <1>9 DEF CleanStops
  <2>3. copies' \in [Files -> {"none", "part", "whole"}]
    BY <2>1 DEF WorkspaceTypeOK
  <2>4. manifest' \in Manifests /\ gutted' \in BOOLEAN
    BY <2>2 DEF NoManifest, Manifests, WorkspaceTypeOK
  <2>5. ReadyIsWhole'
    BY <2>2 DEF ReadyIsWhole, WorkspaceStates
  <2>6. MakerInv'
    BY <2>2 DEF MakerInv
  <2>. QED  BY <2>2, <2>3, <2>4, <2>5, <2>6 DEF WorkspaceTypeOK
<1>10. ASSUME Edit PROVE WorkspaceInv'
  BY <1>10 DEF Edit, WorkspaceTypeOK, MakerInv, ReadyIsWhole
<1>11. ASSUME UNCHANGED workspaceVars PROVE WorkspaceInv'
  BY <1>11 DEF workspaceVars, WorkspaceTypeOK, MakerInv, ReadyIsWhole
<1>. QED
  BY <1>1, <1>2, <1>3, <1>4, <1>5, <1>6, <1>7, <1>8, <1>9, <1>10, <1>11 DEF WorkspaceNext

\* A manifest that tells a state tells of whole and safe files only, whatever
\* Creates were cut before, unless a Clean was stopped.
THEOREM ManifestCommits == WorkspaceSpec => []ReadyIsWhole
<1>. WorkspaceInv => ReadyIsWhole
  BY DEF WorkspaceInv
<1>. QED  BY WorkspaceInitInv, WorkspaceStepInv, PTL DEF WorkspaceSpec

------------------------------------------------------------------------------
(* Sessions and plans *)

SessionsInv == SessionsTypeOK /\ ActiveIsOpen

\* No session and no plan.
LEMMA SessionsInitInv == SessionsInit => SessionsInv
<1>. SUFFICES ASSUME SessionsInit PROVE SessionsInv
  OBVIOUS
<1>1. NoPlan \in [listed: SUBSET Steps, done: SUBSET Steps, exists: BOOLEAN]
  BY DEF NoPlan
<1>2. /\ plans \in [Plans -> [listed: SUBSET Steps, done: SUBSET Steps, exists: BOOLEAN]]
      /\ activeSession = "" /\ activePlan = "" /\ sessions = {} /\ ended = {}
  BY <1>1 DEF SessionsInit
<1>. QED  BY <1>2 DEF SessionsInv, SessionsTypeOK, ActiveIsOpen

\* Every operation, whole or ended between the file of events and the pointer.
LEMMA SessionsStepInv == SessionsInv /\ [SessionsNext]_sessionVars => SessionsInv'
<1>. SUFFICES ASSUME SessionsInv, [SessionsNext]_sessionVars PROVE SessionsInv'
  OBVIOUS
<1>. USE SessionAssumption DEF SessionsInv
<1>1. ASSUME NEW s \in Names, StartSession(s) PROVE SessionsInv'
  <2>1. /\ sessions' = sessions \cup {s} /\ activeSession' \in {activeSession, "", s}
        /\ ended' = ended \ {s} /\ UNCHANGED <<plans, activePlan>>
    BY <1>1 DEF StartSession, AppendEvent, Pointer
  <2>. QED  BY <2>1 DEF SessionsTypeOK, ActiveIsOpen
<1>2. ASSUME AddNote PROVE SessionsInv'
  <2>1. /\ activeSession \in Names /\ sessions' = sessions \cup {activeSession}
        /\ UNCHANGED <<activeSession, plans, activePlan, ended>>
    BY <1>2 DEF AddNote, AppendEvent, SessionsTypeOK
  <2>. QED  BY <2>1 DEF SessionsTypeOK, ActiveIsOpen
<1>3. ASSUME CloseSession PROVE SessionsInv'
  <2>1. /\ activeSession \in Names /\ sessions' = sessions \cup {activeSession}
        /\ activeSession' \in {activeSession, ""}
        /\ ended' = IF activeSession' = "" THEN ended \cup {activeSession} ELSE ended
        /\ UNCHANGED <<plans, activePlan>>
    BY <1>3 DEF CloseSession, AppendEvent, SessionsTypeOK, Pointer
  <2>. QED  BY <2>1 DEF SessionsTypeOK, ActiveIsOpen
<1>4. ASSUME NEW p \in Plans, CreatePlan(p) PROVE SessionsInv'
  <2>1. PICK listed \in SUBSET Steps :
           plans' = [plans EXCEPT ![p] = [listed |-> listed, done |-> {}, exists |-> TRUE]]
    <3>1. CASE plans' = [plans EXCEPT ![p] = [listed |-> Steps, done |-> {}, exists |-> TRUE]]
      BY <3>1
    <3>2. CASE \E n \in Steps : plans' = [plans EXCEPT ![p] =
                 [listed |-> {i \in Steps : i < n}, done |-> {}, exists |-> TRUE]]
      <4>1. PICK n \in Steps : plans' = [plans EXCEPT ![p] =
                 [listed |-> {i \in Steps : i < n}, done |-> {}, exists |-> TRUE]]
        BY <3>2
      <4>2. {i \in Steps : i < n} \in SUBSET Steps
        OBVIOUS
      <4>. QED  BY <4>1, <4>2
    <3>. QED  BY <1>4, <3>1, <3>2 DEF CreatePlan
  <2>2. activePlan' \in {activePlan, "", p} /\ UNCHANGED <<sessions, activeSession, ended>>
    BY <1>4 DEF CreatePlan, Pointer
  <2>. DEFINE new == [listed |-> listed, done |-> {}, exists |-> TRUE]
  <2>3. new \in [listed: SUBSET Steps, done: SUBSET Steps, exists: BOOLEAN] /\ new.exists
    OBVIOUS
  <2>4. plans' = [plans EXCEPT ![p] = new]
    BY <2>1
  <2>. HIDE DEF new
  <2>5. SessionsTypeOK'
    BY <2>2, <2>3, <2>4 DEF SessionsTypeOK
  <2>6. plans'[p].exists /\ \A q \in Plans : plans[q].exists => plans'[q].exists
    BY <2>3, <2>4 DEF SessionsTypeOK
  <2>7. ActiveIsOpen'
    BY <2>2, <2>6 DEF SessionsTypeOK, ActiveIsOpen
  <2>. QED  BY <2>5, <2>7
<1>5. ASSUME NEW i \in Steps, CompleteStep(i) PROVE SessionsInv'
  <2>. DEFINE plan == plans[activePlan]
              new  == [listed |-> plan.listed, exists |-> TRUE,
                       done |-> plan.done \cup ({i} \cap plan.listed)]
  <2>1. activePlan \in Plans /\ UNCHANGED <<sessions, activeSession, activePlan, ended>>
    BY <1>5 DEF CompleteStep, SessionsTypeOK
  <2>2. plans' = [plans EXCEPT ![activePlan] = new]
    BY <1>5 DEF CompleteStep
  <2>3. plan \in [listed: SUBSET Steps, done: SUBSET Steps, exists: BOOLEAN]
    BY <2>1 DEF SessionsTypeOK
  <2>4. new \in [listed: SUBSET Steps, done: SUBSET Steps, exists: BOOLEAN] /\ new.exists
    BY <2>3
  <2>. HIDE DEF new, plan
  <2>. QED  BY <2>1, <2>2, <2>4 DEF SessionsTypeOK, ActiveIsOpen
<1>6. ASSUME UNCHANGED sessionVars PROVE SessionsInv'
  BY <1>6 DEF sessionVars, SessionsTypeOK, ActiveIsOpen
<1>. QED  BY <1>1, <1>2, <1>3, <1>4, <1>5, <1>6 DEF SessionsNext

\* The pointers name work that was opened and not ended since, for any names and
\* plans, wherever an operation ends between its two files and whatever events are
\* lost.
THEOREM PointersNameOpenWork == SessionsSpec => []ActiveIsOpen
<1>. SessionsInv => ActiveIsOpen
  BY DEF SessionsInv
<1>. QED  BY SessionsInitInv, SessionsStepInv, PTL DEF SessionsSpec

------------------------------------------------------------------------------
(* Tasks *)

\* InOrder of any lines.
Ordered(lines) ==
  \A i \in DOMAIN lines :
    /\ lines[i] = "COMPLETED" => \A j \in 1 .. i : lines[j] = "COMPLETED"
    /\ lines[i] = "READY" <=> \A j \in DOMAIN lines : j < i <=> lines[j] = "COMPLETED"

Lines == {lines \in Seq(TaskStatuses) : Len(lines) <= MaxSteps}

\* A process that is about to save holds the first task that is open, and one
\* that has saved has a completion to log.
RunnerInv ==
  /\ runner.at \in {"save", "saved"} => runner.task \in TaskIds
  /\ runner.at = "save" => runner.task \in Open(tasks) /\ runner.task = FirstOpen(tasks)
  /\ runner.at = "saved" => completed[runner.task] < saved[runner.task]

TaskInv == TaskTypeOK /\ Ordered(tasks) /\ LogFollowsFile /\ RunnerInv

\* Any set of naturals with a member has a least one.
LEMMA LeastMember ==
  ASSUME NEW S, S \subseteq Nat, S # {}
  PROVE  \E k \in S : \A n \in S : k <= n
<1>1. PICK k \in S : \A n \in S : ~(<<n, k>> \in OpToRel(<, Nat))
  BY NatLessThanWellFounded, WFMin
<1>2. \A n \in S : ~(n < k)
  BY <1>1 DEF OpToRel
<1>. QED  BY <1>2

\* Lines are numbered from 1.
LEMMA LineNumbers ==
  ASSUME NEW lines \in Lines
  PROVE  /\ Len(lines) \in Nat /\ DOMAIN lines = 1 .. Len(lines) /\ Len(lines) <= MaxSteps
         /\ \A i \in DOMAIN lines : lines[i] \in TaskStatuses
BY DEF Lines

\* The task that is selected is open and everything before it is completed.
LEMMA FirstOpenTask ==
  ASSUME NEW lines \in Lines, Open(lines) # {}
  PROVE  /\ FirstOpen(lines) \in Open(lines)
         /\ \A j \in DOMAIN lines : j < FirstOpen(lines) => lines[j] = "COMPLETED"
<1>1. Open(lines) \subseteq Nat
  BY LineNumbers DEF Open
<1>2. \E k \in Open(lines) : \A j \in Open(lines) : k <= j
  BY <1>1, LeastMember
<1>3. /\ FirstOpen(lines) \in Open(lines)
      /\ \A j \in Open(lines) : FirstOpen(lines) <= j
  BY <1>2 DEF FirstOpen
<1>4. ASSUME NEW j \in DOMAIN lines, j < FirstOpen(lines) PROVE lines[j] = "COMPLETED"
  <2>1. j \notin Open(lines)
    BY <1>1, <1>3, <1>4, LineNumbers
  <2>. QED  BY <2>1, LineNumbers DEF Open, TaskStatuses
<1>. QED  BY <1>3, <1>4

\* What a cut leaves of lines.
LEMMA CutLines ==
  ASSUME NEW lines \in Lines, NEW cut \in Prefixes(lines)
  PROVE  /\ cut \in Lines /\ Len(cut) <= Len(lines)
         /\ \A i \in 1 .. Len(cut) : cut[i] = lines[i]
<1>1. PICK m \in 0 .. Len(lines) : cut = SubSeq(lines, 1, m)
  BY DEF Prefixes
<1>2. lines \in Seq(TaskStatuses) /\ Len(lines) \in Nat
  BY DEF Lines
<1>3. /\ SubSeq(lines, 1, m) \in Seq(TaskStatuses) /\ Len(SubSeq(lines, 1, m)) = m
      /\ \A i \in 1 .. m : SubSeq(lines, 1, m)[i] = lines[i]
  BY <1>2
<1>. QED  BY <1>1, <1>2, <1>3, TaskAssumption DEF Lines

\* Lines that are cut stay in order.
LEMMA CutOrdered ==
  ASSUME NEW lines \in Lines, Ordered(lines), NEW cut \in Prefixes(lines)
  PROVE  Ordered(cut)
<1>1. /\ cut \in Lines /\ Len(cut) \in Nat /\ Len(lines) \in Nat /\ Len(cut) <= Len(lines)
      /\ DOMAIN cut = 1 .. Len(cut) /\ DOMAIN lines = 1 .. Len(lines)
      /\ \A i \in 1 .. Len(cut) : cut[i] = lines[i]
  BY CutLines, LineNumbers
<1>2. ASSUME NEW i \in DOMAIN cut, cut[i] = "COMPLETED", NEW j \in 1 .. i
      PROVE  cut[j] = "COMPLETED"
  BY <1>1, <1>2 DEF Ordered
<1>3. ASSUME NEW i \in DOMAIN cut, cut[i] = "READY", NEW j \in DOMAIN cut
      PROVE  j < i <=> cut[j] = "COMPLETED"
  BY <1>1, <1>3 DEF Ordered
<1>4. ASSUME NEW i \in DOMAIN cut, \A j \in DOMAIN cut : j < i <=> cut[j] = "COMPLETED"
      PROVE  cut[i] = "READY"
  <2>1. i \in DOMAIN lines /\ lines[i] # "COMPLETED"
    BY <1>1, <1>4
  <2>2. ASSUME NEW j \in DOMAIN lines PROVE j < i <=> lines[j] = "COMPLETED"
    <3>1. CASE j \in DOMAIN cut
      BY <1>1, <1>4, <3>1
    <3>2. CASE j \notin DOMAIN cut
      <4>1. i < j
        BY <1>1, <3>2
      <4>2. lines[j] # "COMPLETED"
        BY <1>1, <2>1, <4>1 DEF Ordered
      <4>. QED  BY <1>1, <4>1, <4>2
    <3>. QED  BY <3>1, <3>2
  <2>. QED  BY <1>1, <2>1, <2>2 DEF Ordered
<1>. QED  BY <1>2, <1>3, <1>4 DEF Ordered

\* The lines of a new plan.
LEMMA NewPlanOrdered ==
  ASSUME NEW n \in TaskIds
  PROVE  NewPlan(n) \in Lines /\ Ordered(NewPlan(n))
<1>1. n \in Nat /\ n <= MaxSteps
  BY TaskAssumption DEF TaskIds
<1>2. /\ NewPlan(n) \in [1 .. n -> TaskStatuses] /\ DOMAIN NewPlan(n) = 1 .. n
      /\ \A i \in 1 .. n : NewPlan(n)[i] = IF i = 1 THEN "READY" ELSE "PENDING"
  BY DEF NewPlan, TaskStatuses
<1>3. NewPlan(n) \in Seq(TaskStatuses) /\ Len(NewPlan(n)) = n
  BY <1>1, <1>2
<1>. QED  BY <1>1, <1>2, <1>3 DEF Lines, Ordered

\* The first open task completes and the one after it becomes ready.
LEMMA CompletingOrdered ==
  ASSUME NEW lines \in Lines, Ordered(lines), Open(lines) # {}
  PROVE  LET k == FirstOpen(lines) IN
         Completing(lines, k) \in Lines /\ Ordered(Completing(lines, k))
<1>. DEFINE k == FirstOpen(lines)
            new == Completing(lines, k)
<1>1. /\ Len(lines) \in Nat /\ DOMAIN lines = 1 .. Len(lines) /\ Len(lines) <= MaxSteps
      /\ \A i \in DOMAIN lines : lines[i] \in TaskStatuses
  BY LineNumbers
<1>2. /\ k \in DOMAIN lines /\ lines[k] # "COMPLETED"
      /\ \A j \in DOMAIN lines : j < k => lines[j] = "COMPLETED"
  BY FirstOpenTask DEF Open
<1>. HIDE DEF k
<1>3. \A j \in DOMAIN lines : k < j => lines[j] = "PENDING"
  <2>1. ASSUME NEW j \in DOMAIN lines, k < j PROVE lines[j] = "PENDING"
    <3>1. lines[j] # "COMPLETED"
      BY <1>1, <1>2, <2>1 DEF Ordered
    <3>2. lines[j] # "READY"
      BY <1>1, <1>2, <2>1 DEF Ordered
    <3>. QED  BY <1>1, <3>1, <3>2 DEF TaskStatuses
  <2>. QED  BY <2>1
<1>4. /\ DOMAIN new = 1 .. Len(lines)
      /\ \A i \in 1 .. Len(lines) :
            new[i] = IF i <= k THEN "COMPLETED" ELSE IF i = k + 1 THEN "READY" ELSE "PENDING"
  BY <1>1, <1>2, <1>3 DEF Completing
<1>. HIDE DEF new
<1>5. new \in [1 .. Len(lines) -> TaskStatuses]
  <2>1. \A i \in 1 .. Len(lines) : new[i] \in TaskStatuses
    BY <1>4 DEF TaskStatuses
  <2>2. new = [i \in 1 .. Len(lines) |-> new[i]]
    BY <1>4 DEF new, Completing
  <2>. QED  BY <2>1, <2>2
<1>6. new \in Seq(TaskStatuses) /\ Len(new) = Len(lines)
  BY <1>1, <1>5
<1>7. Ordered(new)
  BY <1>1, <1>2, <1>4 DEF Ordered
<1>. QED  BY <1>1, <1>6, <1>7 DEF Lines, new, k

\* The fields of the running process.
LEMMA RunnerType ==
  ASSUME TaskTypeOK
  PROVE  /\ runner.at \in {"idle", "save", "saved", "next"} /\ runner.task \in 0 .. MaxSteps
         /\ runner.all \in BOOLEAN /\ runner.rounds \in 0 .. Guard
BY DEF TaskTypeOK

\* A process at rest holds nothing.
LEMMA RestType ==
  /\ AtRest \in [at: {"idle", "save", "saved", "next"}, task: 0 .. MaxSteps,
                 all: BOOLEAN, rounds: 0 .. Guard]
  /\ AtRest.at = "idle"
BY TaskAssumption DEF AtRest

\* No plan and no process.
LEMMA TaskInitInv == TaskInit => TaskInv
<1>. SUFFICES ASSUME TaskInit PROVE TaskInv
  OBVIOUS
<1>1. <<>> \in Seq(TaskStatuses) /\ Len(<<>>) = 0 /\ DOMAIN <<>> = {}
  OBVIOUS
<1>. QED
  BY <1>1, RestType, TaskAssumption
     DEF TaskInit, TaskInv, TaskTypeOK, Ordered, LogFollowsFile, RunnerInv

\* What taking up the next task leaves.
LEMMA SelectInv ==
  ASSUME TaskInv, NEW all \in BOOLEAN, NEW rounds \in 0 .. Guard, Select(all, rounds)
  PROVE  TaskInv'
<1>. DEFINE k == FirstOpen(tasks)
<1>1. /\ Open(tasks) # {}
      /\ runner' = [at |-> "save", task |-> k, all |-> all, rounds |-> rounds]
      /\ UNCHANGED <<tasks, completed, saved>>
  BY DEF Select
<1>2. tasks \in Lines
  BY DEF TaskInv, TaskTypeOK, Lines
<1>3. k \in Open(tasks) /\ k \in DOMAIN tasks
  BY <1>1, <1>2, FirstOpenTask DEF Open
<1>4. k \in TaskIds /\ k \in 0 .. MaxSteps
  BY <1>2, <1>3, LineNumbers, TaskAssumption DEF TaskIds
<1>. HIDE DEF k
<1>5. /\ runner' \in [at: {"idle", "save", "saved", "next"}, task: 0 .. MaxSteps,
                      all: BOOLEAN, rounds: 0 .. Guard]
      /\ runner'.at = "save" /\ runner'.task = k
  BY <1>1, <1>4
<1>6. k = FirstOpen(tasks)
  BY DEF k
<1>. QED
  BY <1>1, <1>3, <1>4, <1>5, <1>6 DEF TaskInv, TaskTypeOK, Ordered, LogFollowsFile, RunnerInv

\* What a write of the completed lines leaves on disk.
LEMMA SavedLines ==
  ASSUME TaskInv, runner.at = "save", NEW cut \in Prefixes(Completing(tasks, runner.task))
  PROVE  cut \in Lines /\ Ordered(cut)
<1>1. tasks \in Lines /\ Ordered(tasks) /\ Open(tasks) # {} /\ runner.task = FirstOpen(tasks)
  BY DEF TaskInv, TaskTypeOK, RunnerInv, Lines
<1>2. /\ Completing(tasks, runner.task) \in Lines
      /\ Ordered(Completing(tasks, runner.task))
  BY <1>1, CompletingOrdered
<1>. QED  BY <1>2, CutLines, CutOrdered

\* Every step of the engine, cut or not.
LEMMA TaskStepInv == TaskInv /\ [TaskNext]_taskVars => TaskInv'
<1>. SUFFICES ASSUME TaskInv, [TaskNext]_taskVars PROVE TaskInv'
  OBVIOUS
<1>. USE TaskAssumption, RunnerType, RestType
<1>0. /\ TaskTypeOK /\ Ordered(tasks) /\ LogFollowsFile /\ RunnerInv /\ tasks \in Lines
      /\ completed \in [TaskIds -> Nat] /\ saved \in [TaskIds -> Nat]
  BY DEF TaskInv, TaskTypeOK, Lines
<1>1. ASSUME NEW n \in TaskIds, CreateTasks(n) PROVE TaskInv'
  <2>1. /\ tasks' \in Prefixes(NewPlan(n)) /\ runner = AtRest
        /\ UNCHANGED <<runner, completed, saved>>
    BY <1>1 DEF CreateTasks
  <2>2. tasks' \in Lines /\ Ordered(tasks')
    BY <2>1, NewPlanOrdered, CutLines, CutOrdered
  <2>. QED
    BY <1>0, <2>1, <2>2 DEF TaskInv, TaskTypeOK, Lines, Ordered, LogFollowsFile, RunnerInv
<1>2. ASSUME RunNext PROVE TaskInv'
  <2>1. Select(FALSE, 0)
    BY <1>2, Zenon DEF RunNext
  <2>2. 0 \in 0 .. Guard
    OBVIOUS
  <2>. QED  BY <2>1, <2>2, SelectInv, Zenon
<1>3. ASSUME RunAll PROVE TaskInv'
  <2>1. Select(TRUE, Guard - 1) /\ Guard > 0
    BY <1>3, Zenon DEF RunAll
  <2>2. Guard - 1 \in 0 .. Guard
    BY <2>1
  <2>. QED  BY <2>1, <2>2, SelectInv, Zenon
<1>4. ASSUME Save PROVE TaskInv'
  <2>1. /\ runner.at = "save" /\ tasks' \in Prefixes(Completing(tasks, runner.task))
        /\ saved' = [saved EXCEPT ![runner.task] = saved[runner.task] + 1]
        /\ runner' = [runner EXCEPT !.at = "saved"]
        /\ UNCHANGED completed
    BY <1>4 DEF Save
  <2>2. tasks' \in Lines /\ Ordered(tasks')
    BY <2>1, SavedLines
  <2>3. runner.task \in TaskIds
    BY <1>0, <2>1 DEF RunnerInv
  <2>4. /\ saved' \in [TaskIds -> Nat] /\ saved'[runner.task] = saved[runner.task] + 1
        /\ \A i \in TaskIds : saved[i] <= saved'[i]
    BY <1>0, <2>1, <2>3
  <2>5. \A i \in TaskIds : completed'[i] <= saved'[i]
    BY <1>0, <2>1, <2>4 DEF LogFollowsFile
  <2>6. completed'[runner.task] < saved'[runner.task]
    BY <1>0, <2>1, <2>3, <2>4 DEF LogFollowsFile
  <2>7. /\ runner' \in [at: {"idle", "save", "saved", "next"}, task: 0 .. MaxSteps,
                        all: BOOLEAN, rounds: 0 .. Guard]
        /\ runner'.at = "saved" /\ runner'.task = runner.task
    BY <1>0, <2>1 DEF TaskTypeOK
  <2>8. TaskTypeOK'
    BY <1>0, <2>1, <2>2, <2>4, <2>7 DEF TaskTypeOK, Lines
  <2>9. RunnerInv'
    BY <2>3, <2>6, <2>7 DEF RunnerInv
  <2>. QED  BY <2>2, <2>5, <2>8, <2>9 DEF TaskInv, Ordered, LogFollowsFile
<1>5. ASSUME SaveFails PROVE TaskInv'
  BY <1>0, <1>5 DEF SaveFails, TaskInv, TaskTypeOK, Ordered, LogFollowsFile, RunnerInv
<1>6. ASSUME LogCompleted PROVE TaskInv'
  <2>. DEFINE k == runner.task
  <2>1. /\ runner.at = "saved"
        /\ completed' \in {completed, [completed EXCEPT ![k] = completed[k] + 1]}
        /\ runner' = IF runner.all THEN [runner EXCEPT !.at = "next", !.task = 0] ELSE AtRest
        /\ UNCHANGED <<tasks, saved>>
    BY <1>6 DEF LogCompleted, Appended
  <2>2. k \in TaskIds /\ completed[k] < saved[k]
    BY <1>0, <2>1 DEF RunnerInv
  <2>3. completed' \in [TaskIds -> Nat] /\ \A i \in TaskIds : completed'[i] <= saved[i]
    <3>1. CASE completed' = completed
      BY <1>0, <3>1 DEF LogFollowsFile
    <3>2. CASE completed' = [completed EXCEPT ![k] = completed[k] + 1]
      <4>1. completed' \in [TaskIds -> Nat] /\ completed'[k] = completed[k] + 1
        BY <1>0, <2>2, <3>2
      <4>2. \A i \in TaskIds \ {k} : completed'[i] = completed[i]
        BY <1>0, <3>2
      <4>3. completed[k] + 1 <= saved[k]
        BY <1>0, <2>2
      <4>. QED  BY <1>0, <4>1, <4>2, <4>3 DEF LogFollowsFile
    <3>. QED  BY <2>1, <3>1, <3>2
  <2>4. /\ runner' \in [at: {"idle", "save", "saved", "next"}, task: 0 .. MaxSteps,
                        all: BOOLEAN, rounds: 0 .. Guard]
        /\ runner'.at \in {"next", "idle"}
    <3>1. CASE runner.all
      <4>. DEFINE r == [runner EXCEPT !.at = "next"]
      <4>1. r \in [at: {"idle", "save", "saved", "next"}, task: 0 .. MaxSteps,
                   all: BOOLEAN, rounds: 0 .. Guard] /\ r.at = "next"
        BY <1>0 DEF TaskTypeOK
      <4>2. runner' = [r EXCEPT !.task = 0]
        BY <2>1, <3>1
      <4>. HIDE DEF r
      <4>. QED  BY <4>1, <4>2
    <3>2. CASE ~runner.all
      BY <2>1, <3>2
    <3>. QED  BY <1>0, <3>1, <3>2
  <2>. QED
    BY <1>0, <2>1, <2>3, <2>4 DEF TaskInv, TaskTypeOK, Ordered, LogFollowsFile, RunnerInv
<1>7. ASSUME NextRound PROVE TaskInv'
  <2>1. runner.rounds - 1 \in 0 .. Guard
    BY <1>0, <1>7 DEF NextRound
  <2>. QED  BY <1>7, <2>1, SelectInv DEF NextRound
<1>8. ASSUME Stop PROVE TaskInv'
  BY <1>0, <1>8 DEF Stop, TaskInv, TaskTypeOK, Ordered, LogFollowsFile, RunnerInv
<1>9. ASSUME TaskCrash PROVE TaskInv'
  <2>1. tasks' \in Lines /\ Ordered(tasks')
    <3>1. CASE tasks' = tasks
      BY <1>0, <3>1
    <3>2. CASE runner.at = "save" /\ tasks' \in Prefixes(Completing(tasks, runner.task))
      BY <3>2, SavedLines
    <3>. QED  BY <1>9, <3>1, <3>2 DEF TaskCrash
  <2>2. runner' = AtRest /\ UNCHANGED <<completed, saved>>
    BY <1>9 DEF TaskCrash
  <2>. QED
    BY <1>0, <2>1, <2>2 DEF TaskInv, TaskTypeOK, Lines, Ordered, LogFollowsFile, RunnerInv
<1>10. ASSUME UNCHANGED taskVars PROVE TaskInv'
  BY <1>0, <1>10 DEF taskVars, TaskInv, TaskTypeOK, Ordered, LogFollowsFile, RunnerInv, Open,
                     FirstOpen
<1>. QED
  BY <1>1, <1>2, <1>3, <1>4, <1>5, <1>6, <1>7, <1>8, <1>9, <1>10 DEF TaskNext

\* Tasks complete in the order of the plan and the log tells of no completion
\* that was not written, for plans that RunNext has records for, any guard and any number of crashes.
THEOREM TasksCompleteInOrder == TaskSpec => []TasksInOrder
<1>. TaskInv => TasksInOrder
  BY DEF TaskInv, TasksInOrder, InOrder, Ordered
<1>. QED  BY TaskInitInv, TaskStepInv, PTL DEF TaskSpec

=============================================================================
