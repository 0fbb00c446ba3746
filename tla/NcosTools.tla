----------------------------- MODULE NcosTools -----------------------------
(***************************************************************************)
(* The command line tools of Tools/: each is a process that runs one        *)
(* operation of one engine on the engine's own directory of Knowledge.      *)
(* The five engines below share neither files nor processes, so a behaviour *)
(* of one is the same whatever the others do: `tool` says whose behaviour   *)
(* is followed, and the others stay where they began.                       *)
(***************************************************************************)
EXTENDS PatchPipeline, TaskExecution, WorkSessions, Workspace, GoalGraph

VARIABLE tool

toolVars == <<patchVars, taskVars, sessionVars, workspaceVars, goalVars, tool>>

Tools == {"patch", "task", "session", "workspace", "goals"}

ToolsInit ==
  /\ tool \in Tools
  /\ PatchInit /\ TaskInit /\ SessionsInit /\ WorkspaceInit /\ GoalInit

ToolsNext ==
  /\ UNCHANGED tool
  /\ \/ /\ tool = "patch"
        /\ PatchNext
        /\ UNCHANGED <<taskVars, sessionVars, workspaceVars, goalVars>>
     \/ /\ tool = "task"
        /\ TaskNext
        /\ UNCHANGED <<patchVars, sessionVars, workspaceVars, goalVars>>
     \/ /\ tool = "session"
        /\ SessionsNext
        /\ UNCHANGED <<patchVars, taskVars, workspaceVars, goalVars>>
     \/ /\ tool = "workspace"
        /\ WorkspaceNext
        /\ UNCHANGED <<patchVars, taskVars, sessionVars, goalVars>>
     \/ /\ tool = "goals"
        /\ GoalNext
        /\ UNCHANGED <<patchVars, taskVars, sessionVars, workspaceVars>>

ToolsSpec == ToolsInit /\ [][ToolsNext]_toolVars
=============================================================================
