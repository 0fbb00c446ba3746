--------------------------- MODULE TaskExecution ---------------------------
(***************************************************************************)
(* The task engine (NxTaskExecutionEngine.c): one plan, a file of lines     *)
(* id|status|title|result that RunNext reads, changes and writes again, and *)
(* an action log it appends to before and after.  RunAll repeats RunNext    *)
(* until nothing is left.  The process may die between two steps, a write   *)
(* may be cut, and an append may fail without anybody being told.           *)
(***************************************************************************)
EXTENDS Integers, Sequences, FiniteSets, SequencesExt

CONSTANTS MaxSteps,   \* steps of a plan
          Guard,      \* rounds of RunAll, 512 in the code
          MaxSaves    \* bound of the model: the times one task is saved as completed

\* The records RunNext has room for.  It does not look whether the plan has more
\* lines; CreatePlan writes five.
RecordLimit == 256

ASSUME TaskAssumption ==
  MaxSteps \in Nat /\ MaxSteps <= RecordLimit /\ Guard \in Nat /\ MaxSaves \in Nat

VARIABLES tasks,      \* the statuses of the lines of the plan file that parse, in order
          runner,     \* where the running process is
          completed,  \* TASK_COMPLETED lines of each task in the action log
          saved       \* history: the times RunNext wrote the file with each task completed

taskVars == <<tasks, runner, completed, saved>>

TaskIds == 1 .. MaxSteps

TaskStatuses == {"PENDING", "READY", "COMPLETED"}

\* The lines CreatePlan writes for n steps.
NewPlan(n) == [i \in 1 .. n |-> IF i = 1 THEN "READY" ELSE "PENDING"]

\* A process: which step it is at, the task it selected, whether it runs RunAll
\* and the rounds RunAll has left.
AtRest == [at |-> "idle", task |-> 0, all |-> FALSE, rounds |-> 0]

Open(lines) == {i \in DOMAIN lines : lines[i] \in {"READY", "PENDING"}}

FirstOpen(lines) == CHOOSE i \in Open(lines) : \A j \in Open(lines) : i <= j

\* The records of RunNext after the selected task is done.
Completing(lines, k) ==
  [i \in DOMAIN lines |->
     CASE i = k -> "COMPLETED"
       [] i = k + 1 /\ lines[i] = "PENDING" -> "READY"
       [] OTHER -> lines[i]]

\* An append adds a line or, its result being dropped, none.
Appended(log, k) == {log, [log EXCEPT ![k] = @ + 1]}

TaskInit ==
  /\ tasks = <<>>
  /\ runner = AtRest
  /\ completed = [i \in TaskIds |-> 0]
  /\ saved = [i \in TaskIds |-> 0]

------------------------------------------------------------------------------
\* CreatePlan starts the plan of that id over: the statuses are lost, the log is
\* kept.  A write that is cut leaves a prefix of the lines: a cut one is not parsed.
CreateTasks(n) ==
  /\ runner = AtRest
  /\ \E left \in Prefixes(NewPlan(n)) : tasks' = left
  /\ UNCHANGED <<runner, completed, saved>>

\* RunNext and RunAll load the plan, select the first task that is not done and
\* log it as running, a line that nothing reads and that is left out here.  With
\* nothing to select RunNext only reports the plan.
Select(all, rounds) ==
  /\ Open(tasks) # {}
  /\ LET k == FirstOpen(tasks)
     IN /\ saved[k] < MaxSaves
        /\ runner' = [at |-> "save", task |-> k, all |-> all, rounds |-> rounds]
  /\ UNCHANGED <<tasks, completed, saved>>

RunNext == runner = AtRest /\ Select(FALSE, 0)

RunAll == runner = AtRest /\ Guard > 0 /\ Select(TRUE, Guard - 1)

\* The whole file is written again.  A full disk may cut it without RunNext being
\* told; when the file cannot be opened RunNext returns 0.
Save ==
  /\ runner.at = "save"
  /\ tasks' \in Prefixes(Completing(tasks, runner.task))
  /\ saved' = [saved EXCEPT ![runner.task] = @ + 1]
  /\ runner' = [runner EXCEPT !.at = "saved"]
  /\ UNCHANGED completed

\* Mutant of SaveFails: the result of nx_save_tasks is dropped.
SaveFailureDropped ==
  /\ runner.at = "save"
  /\ runner' = [runner EXCEPT !.at = "saved"]
  /\ UNCHANGED <<tasks, completed, saved>>

SaveFails ==
  /\ runner.at = "save"
  /\ runner' = AtRest
  /\ UNCHANGED <<tasks, completed, saved>>

LogCompleted ==
  /\ runner.at = "saved"
  /\ completed' \in Appended(completed, runner.task)
  /\ runner' = IF runner.all THEN [runner EXCEPT !.at = "next", !.task = 0] ELSE AtRest
  /\ UNCHANGED <<tasks, saved>>

\* The loop of RunAll: stop when every task counts as done or the rounds are
\* used up.
NextRound ==
  /\ runner.at = "next"
  /\ runner.rounds > 0
  /\ Select(TRUE, runner.rounds - 1)

Stop ==
  /\ runner.at = "next"
  /\ Open(tasks) = {} \/ runner.rounds = 0
  /\ runner' = AtRest
  /\ UNCHANGED <<tasks, completed, saved>>

\* The process dies between two steps, or during Save, when a prefix of the new
\* file may be all that is left.
TaskCrash ==
  /\ runner # AtRest
  /\ runner' = AtRest
  /\ \/ tasks' = tasks
     \/ /\ runner.at = "save"
        /\ tasks' \in Prefixes(Completing(tasks, runner.task))
  /\ UNCHANGED <<completed, saved>>

TaskNext ==
  \/ \E n \in TaskIds : CreateTasks(n)
  \/ RunNext \/ RunAll \/ Save \/ SaveFails \/ LogCompleted \/ NextRound \/ Stop
  \/ TaskCrash

TaskSpec == TaskInit /\ [][TaskNext]_taskVars

------------------------------------------------------------------------------
TaskTypeOK ==
  /\ tasks \in Seq(TaskStatuses) /\ Len(tasks) <= MaxSteps
  /\ runner \in [at: {"idle", "save", "saved", "next"}, task: 0 .. MaxSteps,
                 all: BOOLEAN, rounds: 0 .. Guard]
  /\ completed \in [TaskIds -> Nat]
  /\ saved \in [TaskIds -> Nat]

\* The completed lines are the first of the plan, and the one after them is the
\* one the next run will take.
InOrder ==
  \A i \in DOMAIN tasks :
    /\ tasks[i] = "COMPLETED" => \A j \in 1 .. i : tasks[j] = "COMPLETED"
    /\ tasks[i] = "READY" <=> \A j \in DOMAIN tasks : j < i <=> tasks[j] = "COMPLETED"

\* Every completion that is logged was written to the plan file before.
LogFollowsFile == \A i \in TaskIds : completed[i] <= saved[i]

(***************************************************************************)
(* The plan's tasks complete in the order of the plan, one at a time, and   *)
(* the action log reports no completion before the plan file was written    *)
(* with it, whatever is cut, lost or run again.  (A full disk may still cut *)
(* that write and go unnoticed: nx_save_tasks drops the result of fclose.)  *)
(***************************************************************************)
TasksInOrder == InOrder /\ LogFollowsFile
=============================================================================
