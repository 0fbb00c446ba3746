------------------------------ MODULE Workspace ------------------------------
(***************************************************************************)
(* A workspace (NxWorkspaceEngine.c): copies of some of the repository's    *)
(* files under Workspaces/<id>/Source, then workspace.state, whose presence *)
(* is what says that the workspace was created.  Create, Close and Clean    *)
(* are not atomic: each may stop at any of its steps, by an error it        *)
(* reports or because the process dies.                                     *)
(***************************************************************************)
EXTENDS FiniteSets

CONSTANTS Files,   \* relative paths a caller may list
          Unsafe   \* those nx_path_is_safe_relative refuses

ASSUME WorkspaceAssumption == Unsafe \subseteq Files

VARIABLES present,   \* the listed files that exist in the repository
          copies,    \* what Source holds of each file: "none", "part" or "whole"
          manifest,  \* workspace.state
          maker,     \* the running Create: the files left to copy and those copied
          gutted     \* history: a Clean removed part of the workspace and stopped

workspaceVars == <<present, copies, manifest, maker, gutted>>

WorkspaceStates == {"READY", "CLOSED"}

\* The manifest: absent, cut before its state line, or telling a state and the
\* files that were copied (the code writes their number).
Manifests == [state: WorkspaceStates \cup {"absent", "cut"}, files: SUBSET Files]

NoManifest  == [state |-> "absent", files |-> {}]
CutManifest == [state |-> "cut", files |-> {}]

NoMaker == [busy |-> FALSE, left |-> {}, copied |-> {}]

WorkspaceInit ==
  /\ present = {}
  /\ copies = [f \in Files |-> "none"]
  /\ manifest = NoManifest
  /\ maker = NoMaker
  /\ gutted = FALSE

------------------------------------------------------------------------------
\* Mutant of CreateWorkspace: a workspace that exists is filled again.
CreateOverExisting(list) ==
  /\ ~maker.busy
  /\ maker' = [busy |-> TRUE, left |-> list, copied |-> {}]
  /\ UNCHANGED <<present, copies, manifest, gutted>>

\* A manifest, even a cut one, makes Create return 0.
CreateWorkspace(list) ==
  /\ ~maker.busy
  /\ manifest.state = "absent"
  /\ maker' = [busy |-> TRUE, left |-> list, copied |-> {}]
  /\ UNCHANGED <<present, copies, manifest, gutted>>

\* A path that is not safe, or that names no file, is skipped and counted.
Skip(f) ==
  /\ f \in maker.left
  /\ f \in Unsafe \/ f \notin present
  /\ maker' = [maker EXCEPT !.left = @ \ {f}]
  /\ UNCHANGED <<present, copies, manifest, gutted>>

Copy(f) ==
  /\ f \in maker.left
  /\ f \in present \ Unsafe
  /\ copies' = [copies EXCEPT ![f] = "whole"]
  /\ maker' = [maker EXCEPT !.left = @ \ {f}, !.copied = @ \cup {f}]
  /\ UNCHANGED <<present, manifest, gutted>>

\* A copy that stops has truncated its destination; Create returns 0 and leaves
\* what it copied.
CopyFails(f) ==
  /\ f \in maker.left
  /\ f \in present \ Unsafe
  /\ copies' = [copies EXCEPT ![f] = "part"]
  /\ maker' = NoMaker
  /\ UNCHANGED <<present, manifest, gutted>>

\* The manifest is written last; with nothing copied it is not written.  A full
\* disk may cut it, and its lines are in the order id, state, counts.
WriteManifest ==
  /\ maker.busy
  /\ maker.left = {}
  /\ maker.copied # {}
  /\ manifest' \in {CutManifest, [state |-> "READY", files |-> {}],
                    [state |-> "READY", files |-> maker.copied]}
  /\ maker' = NoMaker
  /\ UNCHANGED <<present, copies, gutted>>

\* Create returns 0 with nothing copied or a log line that cannot be written,
\* or the process dies.
StopCreate ==
  /\ maker.busy
  /\ maker' = NoMaker
  /\ UNCHANGED <<present, copies, manifest, gutted>>

\* Close rewrites the manifest, which is truncated first; a closed workspace
\* stays as it is.
CloseWorkspace ==
  /\ ~maker.busy
  /\ manifest.state = "READY"
  /\ manifest' \in {CutManifest, [state |-> "CLOSED", files |-> {}],
                    [manifest EXCEPT !.state = "CLOSED"]}
  /\ UNCHANGED <<present, copies, maker, gutted>>

\* Clean removes the directory with a command of the system, in any order: it
\* may be stopped when part of it is gone.
CleanWorkspace ==
  /\ ~maker.busy
  /\ copies' = [f \in Files |-> "none"]
  /\ manifest' = NoManifest
  /\ gutted' = FALSE
  /\ UNCHANGED <<present, maker>>

CleanStops ==
  /\ ~maker.busy
  /\ \E gone \in SUBSET Files :
        copies' = [f \in Files |-> IF f \in gone THEN "none" ELSE copies[f]]
  /\ manifest' \in {manifest, NoManifest}
  /\ gutted' = (manifest'.state # "absent")
  /\ UNCHANGED <<present, maker>>

\* The repository's own files come and go.
Edit ==
  /\ \E f \in Files : present' \in {present \cup {f}, present \ {f}}
  /\ UNCHANGED <<copies, manifest, maker, gutted>>

WorkspaceNext ==
  \/ \E list \in SUBSET Files \ {{}} : CreateWorkspace(list)
  \/ \E f \in Files : Skip(f) \/ Copy(f) \/ CopyFails(f)
  \/ WriteManifest \/ StopCreate
  \/ CloseWorkspace \/ CleanWorkspace \/ CleanStops
  \/ Edit

WorkspaceSpec == WorkspaceInit /\ [][WorkspaceNext]_workspaceVars

------------------------------------------------------------------------------
WorkspaceTypeOK ==
  /\ present \subseteq Files
  /\ copies \in [Files -> {"none", "part", "whole"}]
  /\ manifest \in Manifests
  /\ maker \in [busy: BOOLEAN, left: SUBSET Files, copied: SUBSET Files]
  /\ gutted \in BOOLEAN

(***************************************************************************)
(* The manifest is the workspace's commit record: while it tells a state,   *)
(* every file it counts is whole in Source and was safe to copy, whatever   *)
(* an earlier Create, with another list, left behind; unless a Clean was    *)
(* stopped before it reached the manifest.                                  *)
(***************************************************************************)
ReadyIsWhole ==
  manifest.state \in WorkspaceStates /\ ~gutted
    => \A f \in manifest.files : copies[f] = "whole" /\ f \notin Unsafe
=============================================================================
