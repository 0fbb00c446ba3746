----------------------------- MODULE ResearchLab -----------------------------
(***************************************************************************)
(* The two ways the laboratory works off a list: the bounded loop over a   *)
(* queue, and the scheduler with the execution that uses it.  They share   *)
(* no state, and no function of one calls the other; each is observed      *)
(* where nothing else runs.                                                *)
(***************************************************************************)
EXTENDS ResearchLoop, AutonomousExecution

VARIABLE lab  \* what is observed

LabInit ==
    /\ lab \in {"loop", "tasks"}
    /\ Init /\ ExecutionInit
    /\ lab = "loop" => user = "callers"

LabNext ==
    /\ \/ lab = "loop" /\ Next /\ UNCHANGED <<schedulerVars, executionVars>>
       \/ lab = "tasks" /\ SchedulerUse /\ UNCHANGED vars
    /\ UNCHANGED lab

LabSpec == LabInit /\ [][LabNext]_<<lab, vars, schedulerVars, executionVars>> /\ WF_vars(LoopStep)
=============================================================================
