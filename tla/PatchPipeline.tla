--------------------------- MODULE PatchPipeline ---------------------------
(***************************************************************************)
(* The patch pipeline: a proposal file (NxSafePatchEngine.c), the approval *)
(* record a human decides in (NxPatchApprovalEngine.c), the application     *)
(* record of what was staged (NxApprovedPatchApplyEngine.c) and the report  *)
(* of the verification gate (NxPatchVerificationGate.c).  Every operation   *)
(* is a process of its own that reads files and then truncates and writes   *)
(* one: the only place a crash or a full disk shows is that last write, of  *)
(* which a prefix may remain.  The tools are run one after the other.       *)
(***************************************************************************)
EXTENDS FiniteSets

CONSTANTS RunIds,     \* the run ids, after nx_normalize_id
          Proposals   \* the paths of proposals, one for each run id given to propose

VARIABLES proposals,     \* the proposals that exist, PatchProposals/<id>.patch.md
          approvals,     \* PatchApprovals/<id>.approval.md, by id
          applications,  \* AppliedPatches/<id>.applied.md, by id
          evidence,      \* the two files the gate reads, by id
          reports,       \* PatchVerification/<id>/verification.md, by id
          approved       \* history: the proposals approved under each id

patchVars == <<proposals, approvals, applications, evidence, reports, approved>>

None    == "none"       \* the line, or the whole file, is missing
Garbled == "garbled"    \* a line cut in the middle of its value
Unknown == "unknown"    \* what the engines write for a proposal they cannot read

Paths == Proposals \cup {Unknown}

ASSUME PatchAssumption == Proposals \cap {None, Garbled, Unknown} = {}

Records(statuses) == [status: statuses \cup {None, Garbled},
                      proposal: Paths \cup {None, Garbled}]

Blank == [status |-> None, proposal |-> None]

Approvals    == Records({"pending", "approved", "rejected"})
Applications == Records({"staged_for_review"})

\* What a write of record r may leave: all of it, or a prefix of its lines with
\* the last one cut.  A prefix of a path names no file.
Left(r) == {r, Blank, [Blank EXCEPT !.status = Garbled],
            [r EXCEPT !.proposal = None], [r EXCEPT !.proposal = Garbled]}

\* The gate's own files, which no engine writes: a human or a test does.
Evidence == [approval: {None, "APPROVED"},
             application: {None, "untested", "passed", "failed"}]

Reports == [status: {None, "BLOCKED", "PROMOTABLE"},
            applicationFound: BOOLEAN, staged: BOOLEAN]

\* The value an engine takes for the proposal of a record: the text after the
\* key, or "unknown" when the record has no such line.
ProposalOf(r) == IF r.proposal = None THEN Unknown ELSE r.proposal

Staged(id) == /\ approvals[id].status = "approved"
              /\ applications[id].status = "staged_for_review"

PatchInit ==
  /\ proposals = {}
  /\ approvals = [id \in RunIds |-> Blank]
  /\ applications = [id \in RunIds |-> Blank]
  /\ evidence = [id \in RunIds |-> [approval |-> None, application |-> None]]
  /\ reports = [id \in RunIds |-> [status |-> None, applicationFound |-> FALSE,
                                   staged |-> FALSE]]
  /\ approved = [id \in RunIds |-> {}]

------------------------------------------------------------------------------
CreateProposal(p) ==
  /\ proposals' = proposals \cup {p}
  /\ UNCHANGED <<approvals, applications, evidence, reports, approved>>

WriteApproval(id, r) ==
  /\ \E left \in Left(r) : approvals' = [approvals EXCEPT ![id] = left]
  /\ UNCHANGED <<proposals, applications, evidence, reports>>

\* Mutant of Request: the new proposal takes over the status of the old record.
RequestKeepsStatus(id, p) ==
  /\ WriteApproval(id, [status |-> IF approvals[id].status = "approved"
                                   THEN "approved" ELSE "pending",
                        proposal |-> p])
  /\ UNCHANGED approved

\* Request overwrites the record whatever it says; the proposal need not exist.
Request(id, p) ==
  /\ WriteApproval(id, [status |-> "pending", proposal |-> p])
  /\ UNCHANGED approved

\* Approve needs no request: it signs whatever proposal the record names.
Approve(id) ==
  /\ WriteApproval(id, [status |-> "approved", proposal |-> ProposalOf(approvals[id])])
  /\ approved' = [approved EXCEPT ![id] = @ \cup {ProposalOf(approvals[id])}]

Reject(id) ==
  /\ WriteApproval(id, [status |-> "rejected", proposal |-> ProposalOf(approvals[id])])
  /\ UNCHANGED approved

\* Only an approved record whose proposal exists is staged.
Run(id) ==
  /\ approvals[id].status = "approved"
  /\ ProposalOf(approvals[id]) \in proposals
  /\ \E left \in Left([status |-> "staged_for_review",
                       proposal |-> ProposalOf(approvals[id])]) :
        applications' = [applications EXCEPT ![id] = left]
  /\ UNCHANGED <<proposals, approvals, evidence, reports, approved>>

\* Nothing under src/ writes the files the gate reads.
WriteEvidence(id) ==
  /\ \E e \in Evidence : evidence' = [evidence EXCEPT ![id] = e]
  /\ UNCHANGED <<proposals, approvals, applications, reports, approved>>

Promotable(e) == e.approval = "APPROVED" /\ e.application = "passed"

\* The report says what the gate found; `staged` remembers what the engines'
\* own records said when it looked.  A cut report reads as blocked.
Verify(id) ==
  /\ \E status \in {IF Promotable(evidence[id]) THEN "PROMOTABLE" ELSE "BLOCKED", "BLOCKED"} :
        reports' = [reports EXCEPT ![id] =
                      [status |-> status,
                       applicationFound |-> evidence[id].application # None,
                       staged |-> Staged(id)]]
  /\ UNCHANGED <<proposals, approvals, applications, evidence, approved>>

PatchStep(id) ==
  \/ \E p \in Proposals : Request(id, p)
  \/ Approve(id)
  \/ Reject(id)
  \/ Run(id)
  \/ WriteEvidence(id)
  \/ Verify(id)

PatchNext ==
  \/ \E p \in Proposals : CreateProposal(p)
  \/ \E id \in RunIds : PatchStep(id)

PatchSpec == PatchInit /\ [][PatchNext]_patchVars

------------------------------------------------------------------------------
PatchTypeOK ==
  /\ proposals \subseteq Proposals
  /\ approvals \in [RunIds -> Approvals]
  /\ applications \in [RunIds -> Applications]
  /\ evidence \in [RunIds -> Evidence]
  /\ reports \in [RunIds -> Reports]
  /\ approved \in [RunIds -> SUBSET (Paths \cup {Garbled})]

(***************************************************************************)
(* What is staged was approved: the proposal an application record names    *)
(* is one a human approved under that run id, whatever was requested,       *)
(* rejected, requested again under the same id or cut short in between      *)
(* (the pipeline's rule, README_NCOS-013.md:12).                            *)
(***************************************************************************)
StagedWasApproved ==
  \A id \in RunIds :
    applications[id].proposal \notin {None, Garbled}
      => applications[id].proposal \in approved[id]

(***************************************************************************)
(* The gate judges what the pipeline staged: when it verifies a patch whose *)
(* records say approved and staged, it finds an application                 *)
(* (README_NCOS-015.md:5 and the flow it draws).                            *)
(***************************************************************************)
GateSeesRecords ==
  \A id \in RunIds : reports[id].staged => reports[id].applicationFound
=============================================================================
