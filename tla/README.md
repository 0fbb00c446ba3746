# A TLA+ verification project for Nexiora

Nexiora is a C code base of about 20 000 lines under `Source/` that runs a
local research laboratory: it packages and installs its own sprints, queues and
runs experiments, keeps knowledge on disk as text files, and lets a human
approve what it proposes.  This directory holds TLA+ modules that model its
parts, the TLC configurations that check them on small instances, and theorems
that TLAPS proves for every value of the constants.

All paths below are relative to the repository; `NxPackageManager.c:794` is a
line of `Source/NCOS/NxPackageManager.c`.

## 1. The system

| part | state | operations | what makes it correct |
|---|---|---|---|
| package manager (`NCOS/NxPackageManager.c`) | the repository tree; `PackageBackups/<package>/*`, `PackageTransactions/<package>/transaction[.pending].log`, `PackageHistory/<package>/{tx-<id>.log,history.index,next.txt}`, `PackageRegistry/<package>/registry.txt` | VerifyPackage, VerifyDependencies, Install, Rollback, RollbackTransaction, History, Status | an install changes all its files or none; the log on disk always undoes what was done; history ids are ordered and their logs are never rewritten |
| apply and certification (the last third of the same file, `NCOS/NxPackageCertification.c`, `Tools/NCOS/NxPackageTool.c`) | `apply.log`, `certification-report.nxcert` | Apply: verify, dependencies, install, cmake, warning gate, ctest and its repetitions, artifacts, docs, certify, rollback | a failed apply leaves the tree it found; a certificate describes the tree |
| package discovery, self update (`NCOS/NxPackageApply.c`, `Tools/NCOS/NxPackageSelfUpdate.c`) | the completion line of each `apply.log`; the executable `nexiora_package.next.exe` | choose the newest package that is not installed; wait for the line, then move the executable | the choice does not depend on the order of readdir; what is moved passed its tests |
| research queue, policy, session, loop (`Research/NxResearchQueue.c` ...) | an array of items with priority, attempts and state; the counters of a session | Enqueue, SelectNext, Mark*, Evaluate, Run | no item is left running; attempts and budgets are bounded |
| research scheduler, autonomous execution (`Research/NxResearchScheduler.c`, `NxAutonomousExecution.c`, `NCP/Research/*`) | an array of tasks, the tick; run, evidence, promotion records | Add, SelectNext, MarkCompleted, Disable, AdvanceTick; RunDefault | cooldown and run limits hold; graph, journal and metrics tell what was run |
| patch pipeline (`NCOS/NxSafePatchEngine.c`, `NxPatchApprovalEngine.c`, `NxApprovedPatchApplyEngine.c`, `NxPatchVerificationGate.c`) | one file per run and stage under `Knowledge/NCOS` | CreateProposal, Request, Approve, Reject, Run, Verify | only what a human approved is staged or called promotable |
| work state (`NCOS/NxWorkspaceEngine.c`, `NxSessionEngine.c`, `NxPlanningEngine.c`, `NxTaskExecutionEngine.c`, `CognitiveV2/NxGoalGraph.c`) | workspace, session, plan, task and goal files | create, start, close, run next, set status | one active session; a task runs once; a goal is done after its dependencies |
| research graph, knowledge, concepts, answering, cognitive pipelines, NCP core, governance, bootstrap | arrays and text files | add, query, score, format, print | capacity limits, reference integrity |

How they interact.  Every operation is called by a command line tool or by
another module of the same process; there are no threads.  What makes the
system hard is the disk: an operation is a sequence of file operations, each of
which may fail, and a process may die between two of them; the next process
finds whatever is there.  Apply calls Install and RollbackTransaction, which
share the journal, the backups and the history with the operator's own
`install`, `rollback` and `rollback-tx` commands.  Packages share destination
files.  The research loop hands items to callbacks and reports back to the
queue by id.  The stages of the patch pipeline communicate through files whose
paths each stage computes on its own.

`PROJECT.json` lists every component with its sources and what is modelled of
it, and, under "hazards", what is hard to test in this code and which property
covers it.

## 2. The modules

### PackageInstall: the transactional installer

One action per file operation of Install, Rollback and RollbackTransaction.
Its variables are the files on disk (`file`, `backup`, `pending`, `tx`,
`archive`, `index`, `next`, `registry`) and the locals of the running call
(`pc`, `op`, `pkg`, `files`, `i`, `installed`, `ok`, `log`, `j`).  Two history
variables, `before` and `unfinished`, remember the tree the last install found
and whether that install is still the last call made.

| code | action |
|---|---|
| Install up to opening the manifest (:705-756) | `Begin` |
| one mapping of the loop (:757-819) | `MkdirFails`, `SkipUnchanged`, `BackUp` or `NoBackup`, `Journal`, `CopyPayload` |
| nothing changed (:839-843) | `NoOp` |
| commit: append, remove, rename (:584-593, :830) | `RemoveCommitted`, `RenamePending` |
| archive: copy, index line, counter (:640-688) | `ArchiveLog`, `AppendIndex`, `WriteCounter` |
| error path (:826-828) | `StartUndo`, `Replay*`, `MarkRolledBack` |
| registry and return (:845-868) | `Record` |
| Rollback, RollbackTransaction (:870-979) | `Rollback`, `RollbackTransaction`, `Replay*` |
| the process dies | `Crash` |

`Faults` names the file operations that may fail.  A copy that fails may leave
its target as it was or cut short (`Partial`), because `nx_pm_copy_file`
truncates first; the fault `flush` stands for the dropped results of `fputs`
and `fclose`, after which a write reports success and its text is lost.

Abstractions: contents are values and equal hashes mean equal contents (the
64-bit FNV collision is ignored); the marker lines of a log (BEGIN, COMMIT, ...)
are dropped because nothing reads them; VerifyPackage only reads and is the set
`Manifests`; the install log is left out.

### AtomicPackages and PackageRecovery

`AtomicPackages` is what the documents promise: a package store in which an
install and a rollback are one step each.  `PackageRecovery` adds history
variables to PackageInstall and shows that it implements the atomic store:
`seen` holds the abstract store as of the last moment no call was running, so
every file operation is a stutter and the last one of a call is the abstract
step.

### PackageApply

Apply over PackageInstall (it EXTENDS it): `phase` is the next thing Apply
does, `RunInstall` and `RunRollback` interleave the steps of the installer,
and `Operator` lets somebody use install, rollback and rollback-tx between two
applies.  cmake, ctest and nexiora_docs are external: each passes or fails and
may leave a warning in `apply.log`.  `report` is the certification report;
`start` and `disturbed` are history variables.

### PackageUpdate

What surrounds Apply; it EXTENDS PackageApply, whose steps become `ApplyOn`.

| code | definition |
|---|---|
| `NxPackageManager_DiscoverPendingPackage`: readdir, `nx_consider_package`, `nx_candidate_is_better` | `Discover`, `Consider` (any entry next; VerifyPackage may reject it), `Better` |
| `NxPackageManager_ApplyNext` | `ApplySelected`, `NothingFound` |
| `apply.log` started afresh, the completion line | `Truncated` and `LogAfter`, `Completes` |
| the build links `nexiora_package.next.exe` | `BuildsNext` |
| the helper's loop and its move, `--replace-now` | `Replace` |

The helper keeps nothing but its arguments, several may wait at once, and any
command line may start one: it is an action that is enabled whenever a waiting
helper would succeed.  `completed` keeps of each `apply.log` only whether it
holds the completion line and of which kind of target; `staged` is the
executable, with the package whose apply built it and whether an apply went
through all its phases afterwards.

### PackageInstallProofs, PackageJournalProofs, PackageApplyProofs, PackageRecoveryProofs

The theorems of section 5 about the four: the ranges of the installer; its
journal, its history and all or nothing; Apply and what surrounds it; the
refinement of the atomic store.

### ResearchLoop: queue, policy, session and loop

The queue of `NxResearchQueue.c` with `NxAutonomousResearchLoop_Run`, whose
steps are the actions.  A run keeps its own copy of the selected item (`item`)
and reports back to the queue by id, while the counters of its result
(`session`) are kept apart; the properties relate the three.

| code | action |
|---|---|
| `NxResearchQueue_Enqueue`, `_Reset` | `Owner` (`Enqueue`, `Reset`) |
| `NxResearchQueue_SelectNext` | `SelectNext`, and `Scan` for the way it searches |
| no item, no cycle left | `NothingLeft`, `CyclesDone` |
| `NxResearchPolicy_Evaluate` | `BudgetSpent`, `Refused`: `Stop`, `Skip`, `Accept` |
| the four callbacks and the mark that follows | `CallbackPasses`, `CallbackFails`, `LastCallbackPasses` |

The callbacks are the caller's: each passes or fails, and may enqueue more
work, since its user data can reach the queue.  `done` and `executions` are
history variables: the items that had a result when the run began, and how
often the experiment of each item was executed.

### ResearchLoopProofs

The theorems about ResearchLoop.

### ResearchScheduler

The scheduler of `NxResearchScheduler.c`, one action per function (`Add`,
`SelectTask`, `MarkTaskCompleted`, `Disable`, `AdvanceTick`).  Tasks are known
by position, as callers number them when they add them.  Run counters and ticks
are unsigned and wrap at `Span`.  `MarkTaskCompleted` accepts any known task in
any state, as the code does; `Report` is the assumption on callers, each of
which reports what SelectNext gave it, once, as `NxAutonomousExecution` does.
Several callers may hold tasks and report late, in any order, and a task may be
disabled while it is out.  History variables: `holders` (how many callers hold
a task), `rest` (the ticks of its cooldown that are left, counted down one
advance at a time, while the code compares absolute ticks) and `wrapped`.

A task that is disabled while somebody holds it comes back to `pending` when
the report arrives, since MarkCompleted (:223-227) does not look at the state.
`DisabledStays` says that a disabled task stays disabled; `scheduler_disabled`
finds that case.

### AutonomousExecution and ResearchSchedulerProofs

`NxAutonomousExecution_RunDefault` on top of ResearchScheduler, which it
EXTENDS and whose `Add`, `SelectTask` and `MarkTaskCompleted` its steps are
made of.  `user` says who uses the scheduler in a behaviour: the callers of the
section above, or executions, one after the other.

| code | action |
|---|---|
| directories, discovery, a scheduler (:180-242) | `Begin` |
| a task for each ready experiment (:232-259) | `Discovered`, `AddExperiment` |
| the journal, the manifest's node (:261-287) | `OpenJournal`, `JournalFails` |
| select, `experiment started` (:289-305) | `Start` |
| run, `experiment completed`, count (:305-313) | `Complete` |
| nodes, edges, MarkCompleted (:313-346) | `Record` |
| metrics and release (:349-390) | `Finish` |
| the process dies | `ExecutionCrash` |

The graph is that of `NxResearchGraph.c`: arrays that double (`node_room`,
`edge_room`), whose growth may fail; `AddNode` and `AddEdge` are the sets of
graphs a call may leave.  The journal and the metrics stay on disk for the next
execution; scheduler and graph do not.  `ResearchSchedulerProofs` holds the
theorems about this module and about ResearchScheduler.

### ResearchLab

The loop and the scheduler side by side, for one run: they share no state, and
`lab` says which of them is observed.

### PatchPipeline, TaskExecution, WorkSessions, Workspace: the record keepers

Four engines, each on its own directory of `Knowledge/NCOS`, each run by a tool
of its own.  `NcosTools` puts them and the goal graph of the next section side
by side: `tool` says whose behaviour is followed, since they share no file.

*PatchPipeline.*  An operation reads files and writes one, so it is one action;
what a crash or a full disk leaves of that write (a prefix, its last line cut)
is the set `Left`.  `Request`, `Approve`, `Reject`, `Run` and `Verify` are the
functions of the engines; `WriteEvidence` is external, a human or a test that
writes the files the gate reads, because nothing else does.  `approved` is a
history variable: what was approved under each run id.

*TaskExecution.*  `RunNext` is three steps, `Select`, `Save` and
`LogCompleted`, between which the process may die; `RunAll` repeats them with a
guard (512 rounds in the code).  A file that is cut keeps a prefix of its
lines.  `saved` counts, for each task, the times the plan was written with it
completed.  RunNext has room for 256 records and does not look whether the plan
has more (:305-318; `nx_load_tasks` counts on, :271-272): the model assumes
plans that fit (`RecordLimit`, in `TaskAssumption`).

*WorkSessions.*  Sessions (`NxSessionEngine.c`) and plans
(`NxPlanningEngine.c`) have the same shape: a file of events each, and a
pointer file that names the active one.  `nx_append_event` fails when it cannot
open the file and drops the results of its writes, so an event that was
reported may be lost; of a session's events the model keeps that the file
exists (`sessions`), and the code reads nothing else but the number of lines.
A write of the pointer may leave the old name, none or the new one.  `ended` is
a history variable: the sessions whose Close returned OK and which were not
started since.

*Workspace.*  `CreateWorkspace` starts a maker that copies file by file
(`Skip`, `Copy`, `CopyFails`) and writes `workspace.state` last
(`WriteManifest`); it may stop anywhere.  `CloseWorkspace` rewrites the
manifest, `CleanWorkspace` removes the directory with a command of the system
and may be stopped half-way (`CleanStops`, `gutted`).

`NcosToolsProofs` holds the theorems about the four.

### GoalGraph and GoalGraphProofs

The goal graph of `NxGoalGraph.c` and its file.  The file is modelled by what
`NxGoalGraph_Load` makes of it (`file`, `nodes`), so every action is a whole
call: load, change, validate, write, and what the next load will read.

| code | definition |
|---|---|
| `NxGoalGraph_Create`, `_Add`, `_SetStatus` | `Create`, `Add`, `SetStatus` |
| `nx_write_graph`, then `NxGoalGraph_Load` | `Written`: `DepsRead` are the dependencies that the last line reads back with |
| the same, when the write ends early | `WriteLost` (nothing readable), `WriteCut` (the goals up to one, that one perhaps with fewer dependencies or a shorter id) |
| `NxGoalGraph_Validate`, `nx_visit` | `Validate`, `Acyclic` |
| `NxGoalGraph_ListReady` | `IsReady`, `Found` (its first loop), `Settle` and `Sorted` (the two loops of its exchange sort) |

A title is written unescaped and is one of five kinds, by how its line reads
back: plain; with a `|` or a line end after some text, where the title is cut
and the dependencies read are those between `|deps=` and a line end in the
title, if any; the same with something there that does not parse, or beginning
with one of the two, after which the file cannot be read any more; with a line
end and a line that is a goal of its own, after which the file holds goals that
nobody added and is not followed further.

History variables: `declared` (what Add was given), `intact` (the goals written
with what they were given that never lost any of it to a write that ended
early), `reopened` (the goals that were DONE and are not), and `injected`
(whether a title brought dependencies of its own).

### MC modules

`MCPackageInstall`, `MCPackageRecovery`, `MCPackageApply`, `MCPackageUpdate`,
`MCResearchLoop`, `MCResearchScheduler`, `MCResearchLab`, `MCGoalGraph` and
`MCNcosTools` give the constants their values.

Definitions whose name ends in an underscore and a word (`IdAfter_Same`), or
whose comment calls them a mutant, are faulty variants of the definition that
follows them.  No specification uses
them: they are what the mutation tests of PROJECT.json put in its place, to
show that each property notices the fault.

## 3. The runs

| run | instance | checks |
|---|---|---|
| `pm_faults` | one package in two versions over two files, one transaction, 12 failing operations and crashes | `TypeOK`, `JournalCovers`, `FailureRestores`, `CallsReturn` |
| `pm_recover` | `core` in two versions and `ext`, which requires it and overwrites one of its files; two transactions each; no faults | `AllOrNothing`, `HistoryOrdered`, `HistoryKept`, `ImplementsAtomicStore` |
| `apply` | one package in two versions and a repair of the first, repetitions 0 and 7 (below and above the clamp), an artifact only the first version brings, a version without a complete contract and without `next.exe`; two mtimes; three transactions; the log, the copies and the report may fail | `ATypeOK`, `FailedApplyRestores`, `CertificateHolds`, `NewestIsChosen`, `ReplacementTested`, `ApplyReturns` |
| `apply_faults` | the same packages, one transaction; the log, the archive, the replay and the process may fail | `RollbackIsTold` |
| `research_lab` | three items of priority 0 or 1 with one or two attempts, the default policy and a strict one, runs of one and of three cycles; or two tasks of four kinds (two runs; unlimited and later; runs used up; disabled), cooldowns 0, 1 and 4, advances of 1 and 2, values that wrap at 5; or two executions over three experiments, two of them ready | of the loop `ResearchTypeOK`, `NoItemLost`, `ExecutionsBounded`, `BudgetHeld`, `SessionAgrees`, `ScanFindsFirst`, `ResultsAreFinal`, `EveryItemEnds`; of the scheduler `SchedulerTypeOK`, `OneHolder`, `RunsCapped`, `CooldownExact`; of the execution `EdgesFollowRuns`, `JournalTells` |
| `tools` | two proposals under one run id; a plan of up to three tasks, each saved at most twice; two sessions, one plan of two steps; three files, one of them unsafe; writes that are cut, processes that die.  Three goals, two priorities, titles of the five kinds with and without dependencies of their own, dependencies on an earlier goal, on itself, on a later one, on two and on too many; goals made READY and DONE; writes that end early | `StagedWasApproved`, `TasksInOrder`, `ActiveIsOpen`, `ReadyIsWhole`; of the goals `GoalTypeOK`, `GraphValid`, `SomethingReady`, `DoneAfterDependencies`, `ReadyInOrder` |
| `pm_old_transaction` | as `pm_recover` | `HistoryRecoverable` is violated: the backups of an older transaction are overwritten |
| `pm_late_failure` | as `pm_recover`, the archive may fail | `AllOrNothing` is violated: Install fails and keeps its files |
| `pm_dependency` | as `pm_recover`, one transaction, the copies may fail | `DependenciesInstalled` is violated: the registry.txt of a package whose install was rolled back satisfies the dependency check |
| `scheduler_disabled` | the tasks and executions of `research_lab` | `DisabledStays` is violated: the report of a task that was disabled while it was out makes it pending |
| `goals_barred` | the goals of `tools`, two of them, no failing writes | `CannotSkipDependency` is violated: a bar in a title drops the goal's dependencies |
| `patch_gate` | as `tools` | `GateSeesRecords` is violated: the gate looks under paths no engine writes |

What the bounds leave in.  The hazards of the installer need a mapping that
restores, one that deletes and one that is skipped, a second version that
touches the same files, and a failure or a crash at every operation of either:
two files and two versions have them, and one transaction is enough since the
pending log is started afresh.  Recovery needs an older and a newer
transaction and a second package in between: two transactions, two packages,
one shared file.  Apply needs a certified version, a failed successor and the
operator's interference: three transactions.  `TxBound` bounds ids and history
lines in the guards of `Begin` and `Apply`; nothing else is bounded.
`apply_faults` has one transaction because crashes multiply the states.
Discovery needs a tie of mtimes and a difference, and a directory that is
skipped; the self update needs a log that is older than the executable, a
target that builds one and one that does not: the two versions and the repair.

The patch pipeline needs a record that is requested again with another
proposal: two proposals, one id.  The task plan needs a first, a middle and a
last task; `MaxSaves` bounds how often one is written as completed (a plan may
be started over) and `Guard` is small so that RunAll gives up.  Sessions need
one that is started while another is open.
The workspace needs a file that is copied, one that comes and goes and one that
is refused.  An execution needs two tasks that differ in priority from the
order of registration, graph arrays that grow within it (`NodeRoom` 2,
`EdgeRoom` 1 instead of 16 and 32), and a second execution on the journal of
the first (`MaxExecutions`, after which that run stops, so its deadlock check is
off).

The loop needs items that tie, that differ in priority, that retry and that
may not, a policy that refuses by priority, by attempts and by budget, runs
that are cut by their cycles and runs that end with work left, and room for a
callback to add an item while another is held: three items, two priorities, two
limits, a strict policy (minimum 1, one attempt, one execution) next to the
default one.  `Capacity` is the storage the caller gives to the queue, not a
bound of the model; nothing else is bounded.

The scheduler needs two tasks that are out together, one with a limit above
one, a cooldown of zero, one that passes and one that wraps, and advances that
jump over a deadline.  `Span` is small so that wraps happen; `TaskLimit` is the
capacity given to Init.

The goals need a chain and a pair of dependencies, a tie and a difference of
priorities among three ready goals, and a title of each kind before and after a
goal that depends on it.  Ids are written in base `Radix`, 10 in the code and 2
in the run, so that a number cut short is met with two goals.  Every goal is at
top level there: a parent is only ever asked to exist.  `MaxNodes` and
`MaxDeps` are the limits of the code (128 and 16).

`pm_recover` and the refinement have no faults on purpose: with a failing
archive `AllOrNothing` does not hold, which is what `pm_late_failure` shows,
and with a failing counter an id is used twice.  Where a fault breaks what a
document promises there is a run that finds it (`pm_late_failure`,
`pm_dependency`).

## 4. Fairness

A call is a sequential function; once it has started, nothing in the code
makes it wait, so the specifications assume weak fairness of its steps and
nothing of the environment: nobody has to start a call, no file operation has
to succeed, no fault and no crash has to happen.  Apply waits for cmake and
ctest without a timeout (`system`), so `ApplyReturns` assumes that those
commands end.

The research loop is a sequential function too: `WF_vars(LoopStep)` says that a
run that has started goes on, so that every callback returns.  Nobody has to
start a run; `EveryItemEnds` therefore speaks of the behaviours in which runs
with at least one cycle are started again and again.

The record keepers, the scheduler and the goal graph state no fairness: what
they do is up to their callers.

## 5. What is proved

Every safety property and every action property that a passing run checks is a
theorem for every value of the constants, and so is the refinement.  The
hypotheses some of them have are conditions on the set of operations that may
fail, or on the manifests; each is stated with the theorem.

### The installer

In `PackageInstallProofs`: `TypeCorrect`, `Spec => []TypeOK`, for any
packages, paths, manifests, bound and set of faults.

In `PackageJournalProofs`, under hypotheses that the code does not enforce and
that the theorems name:

| theorem | hypotheses |
|---|---|
| `JournalAlwaysCovers` (`[]JournalCovers`) | `LogsReliable`, `DistinctBackups` |
| `FailedInstallRestores` (`[]FailureRestores`) | and `ReplayReliable` |
| `InstallIsAtomic` (`[]AllOrNothing`) | and `LateReliable` |
| `HistoryIsOrdered` (`[]HistoryOrdered`), `HistoryIsKept` (the action property `HistoryKept`) | `CounterReliable` |

- `LogsReliable`: creating the pending log does not fail and no write is lost
  after it was reported (`flush`); otherwise a copied file may have no journal
  line.
- `ReplayReliable`: no line fails to replay; otherwise nothing can be promised
  of a rollback.
- `LateReliable`: no operation after the last mapping fails; `pm_late_failure`
  shows what happens when one does.
- `CounterReliable`: the counter is written whenever an index line is, so it
  neither fails nor is lost, and the process does not die before it; otherwise
  an id is used twice.
- `DistinctBackups`: two mappings of a manifest have different backup names
  (so different destinations).  `nx_pm_make_backup_path` maps `a/b` and `a_b`
  to one name; then the second backup overwrites the first.

The argument.  `JournalCovers` is not inductive: it says what the log and the
backups are, not how far the loop has come.  `JournalInv` adds `Installing`
(which labels belong to an install, and that its pending log exists),
`Journalled` (the pending log names only mappings that the loop has passed or
is copying, so a backup about to be taken cannot destroy one that a line needs)
and `Replayed` (what is not yet put back is in the lines the replay has left).
The proof has a lemma per action; those about the backup, the journal line, the
copy and a replayed line carry the argument, the others leave the files alone.
`AllOrNothing` needs `Placed`: what the loop has passed is in place and stays so
until the call records its result.  The history needs `Archiving`: the log about
to be archived exists and goes to the id that the counter will leave behind.

### Recovery and the atomic store

In `PackageRecoveryProofs`: the refinement `InstallerIsAtomicStore`, every step
of the file-by-file installer is a step of AtomicPackages or a stutter, under
`Faultless` and `DistinctBackups`.

`Faultless` lets the removal of a pending log, its ROLLED_BACK line and
registry.txt fail, and nothing else.  That is what the refinement needs: a
failed install has overwritten the backups that the log of the transaction
before it names, so the next Rollback puts back something else.  The run checks
it with no faults at all.

The invariant, `RecoveryInv`, has to say what the disk means to the abstract
store at every label.  `Newest`: the newest archived log is the committed one,
and its lines can be replayed, in any order.  `Exact`: the log of a running
install names the mappings it replaced and no other.  `Seen`: while a call runs
the abstract store is the one it found, and what Rollback would put back can be
read from the log and the backups (`UndoOf`), except while they are being
replaced.  `Replaying`: a replay has put back the lines before `j` and nothing
else.  Of the actions one ends an abstract step, `Record` or the last line of a
replay; all others are stutters.

### Apply, discovery and self-update

In `PackageApplyProofs`, for any packages, targets, bounds and faults:
`ApplyTypeCorrect`; `RollbackIsTrue`, when Apply says that it rolled back the
tree is the one it found (`LogsReliable`, `DistinctBackups`);
`FailedApplyRestoresTree` and `CertificateIsTrue` (and `ReplayReliable`,
`LateReliable`).  They use `JournalInv` and `PlacedInv` of the installer, whose
steps Apply interleaves.  `Recoverable` says that, once Install has handed out a
transaction, undoing its log leads back to `start`, through every phase until
Apply returns; `Restored` and `Reported` say what the result and each report
tell of the tree.

Also there: `UpdateIsApply`, every step of the tool with discovery and the
helper is a step of Apply or leaves it alone, from which `UpdateTypeCorrect` and
`UpdateIsSafe` carry the theorems above over; and, for any directories, mtimes
and order of readdir, `NewestIsApplied` and `ReplacementIsTested`.  The former
rests on `ScanInv`: what is selected is the last, by time and path, of what was
seen so far, and no directory is seen twice.  The latter needs `LogInv`, which
ties the kind of completion line to the package and says that a log loses its
line when its apply begins, before that apply can build anything.

### The research loop

In `ResearchLoopProofs`, for any capacity, priorities, limits and policies:
`ResearchTypeCorrect`, `NoItemIsLost`, `ExecutionsAreBounded`, `BudgetIsHeld`
and `ResultsStay`, the last an action property.  They rest on one inductive
invariant, `LoopInv`.  `NoItemLost` alone is not inductive: marks go by id, so
one must know that the item of that id is the one the loop holds and that it is
running (`HoldsItem`) and that nothing else runs (`OthersWait`).
`ExecutionsBounded` needs that the attempt `SelectNext` has counted is not
executed before the policy accepts it (`AttemptsCounted`), and `BudgetHeld`
that a callback is only reached with room in the budget (`BudgetLeft`).

`SessionIsRight` counts sets of items: the item that a mark ends was running,
so it is in none of the sets before and in one of them after (`CountMarked`);
nothing else adds to one.  `SelectionIsFirst` is an induction over the rounds of
the scan: the order of selection is total and transitive (`OrderOfItems`), so a
round keeps the best of what was seen (`RoundKeepsBest`).

### The scheduler and the execution

In `ResearchSchedulerProofs`, for any word size, capacity, tasks, cooldowns and
ticks: `SchedulerTypeCorrect`, `TasksHaveOneHolder`, `RunsAreCapped`,
and `CooldownIsExact`, under the assumption on callers that `Report` is.  The
inductive invariant,
`SchedulerInv`, ties `holders` to the state of a task (`HeldByState`: a running
task has one holder, a waiting or finished one none, a disabled one at most
one), keeps a run for every report that is to come (`RunForReport`), and
relates the absolute tick to what is left of the cooldown (`TickHoldsRest`).

For any experiments and capacities of the graph: `GraphIsRight`,
`ExecutionKeepsScheduler` and `JournalIsTrue`.  The second shows that every step
of an execution is a step of the scheduler, or ends it, so that `SchedulerInv`
carries over.  The heart of the first is that an id variable is either 0, which
names no node, or the node just added: `NodeAdded` and `EdgeAdded` say so of one
call, `RecordedGraph` of six.  The third needs that the tasks are experiments in
the scheduler's order (`TasksAreExperiments`), that every line of the running
execution belongs to a run it has made (`LinesAreRuns`), and that the executions
of which metrics exist write no more lines (`MetricsArePast`).

### The goal graph

In `GoalGraphProofs`, for any capacity, titles, dependencies and statuses, and
with writes that end anywhere: `GoalTypeCorrect`, `GraphsAreValid`,
`PlansNeverStick`, `DependenciesComeFirst` and `ReadyIsSorted`.  The key to the
first four is `Ordered`: Validate refuses a dependency that does not exist or is
the goal itself, so a goal depends on smaller ids only; a cut line only makes
them smaller.  A graph without cycles follows (in any set of goals the least one
needs none of the others), and so does that the first open goal is ready.  A
title may break the order of the last goal, and of no other, because nothing is
added to a graph that Validate refuses: `OrderedButLast` is what is inductive,
and `ValidIsOrdered` leads back to `Ordered` (`GraphsAreValid` is about graphs
whose titles brought no dependencies).  The lemma `WriteKeeps` says what a write
leaves wherever it ends.

`ReadyIsSorted` is a proof of the exchange sort: an exchange keeps the goals
(`ExchangedPlaces`), the inner loop puts the goal that comes before all the rest
at its place and leaves the places before it alone (`SettledPlace`), and the
outer loop is an induction over the places (`SortedPlaces`).

### The record keepers

In `NcosToolsProofs`, for any ids, names, plans and files: `PatchTypeCorrect`,
`StagingNeedsApproval`, `TasksCompleteInOrder` (for plans of up to 256 tasks),
`PointersNameOpenWork` and `ManifestCommits`.
`StagingNeedsApproval` is not inductive: it needs that an approval record which
says approved names a proposal that was approved, through every way a write can
be cut.  `ManifestCommits` needs that what a maker counts is whole, and that
there is no manifest while it works.  `TasksCompleteInOrder` needs that the
task a runner holds is the first open one of the file it will write.

### How loops are proved

`Scan`, `Found`, `Settle` and `Sorted` are recursive functions of the round.
The induction theorems of the library take a predicate as a parameter, which
the provers cannot instantiate, so these proofs argue with sets: a set of rounds
that holds 0 and, with a round, the next one, holds all of them (`EveryRound`),
because the least one it lacks cannot exist (`LeastMember`).  That the recursion
has a value at all is proved the same way (`RoundsExist`, `ScanExists`).

### Only model-checked

The three liveness properties, `CallsReturn`, `ApplyReturns` and
`EveryItemEnds`: liveness under fairness is beyond the provers used here.  And
the properties of the runs that find a violation, which the code does not have.

## 6. What the models do not say

Of every part:

- One process at a time.  Two concurrent processes share logs and counters
  without a lock; the code has nothing to say about it and neither has the
  model.
- A line of a transaction log is written or not; one cut short by a crash is
  not modelled.  The lines of the goal graph and of the patch records may be
  cut, and the files of plans, tasks and workspaces end anywhere.
- The text of titles, objectives and task names, and their length limits.  The
  objective of a goal graph is assumed to hold no line end.
- Other programs do not change the files, except where an action says so
  (`WriteEvidence`, `Edit`).

Of the packages:

- The dependency check asks whether `registry.txt` exists, and an install that
  was rolled back leaves one: with failing copies `DependenciesInstalled` does
  not hold, although `Docs/NCOS/PACKAGE_DEPENDENCY_RESOLUTION.md:9` says that a
  missing dependency blocks installation (`pm_dependency`).
- For the same reason discovery never offers a package again whose install
  failed.
- When VerifyPackage rejects a package, Apply returns before it has a report to
  write, although `Docs/NCOS/NCOS-025_QUE_LOGRAMOS.md:3` speaks of a report for
  every apply.
- The completion line is logged before the certification report is written.
  When the report fails the apply is rolled back, but a helper may already
  move the executable.  `ReplacementTested` therefore says that its tests
  passed, not that it was certified.
- A helper that waits for the log of one package moves whatever executable is
  there, also one that another package's failed build left; and an apply of a
  target without `next.exe` does not rebuild it.  The property speaks of the
  executable of the same package, and of logs of targets that build one.
- The death of the process is not combined with PackageUpdate.
- No property covers: registries that a rollback does not rewrite, two mappings
  with one destination or one backup name, and log lines a full disk loses (the
  last two are hypotheses of the theorems).

Of the record keepers and the execution:

- An approval names a proposal's path, not its content: a proposal that is
  rewritten after it was approved is staged as it is then.
- A title such as `x|deps=9` with a line end after it is accepted by Add, which
  validates the dependencies it was given, and is read back with one that does
  not exist: every later call rejects the file, until Create starts it over.
  `GraphValid` and `SomethingReady` are about files that hold no such title or
  that load in spite of it.
- An event of a session that the disk loses is reported as written, the start
  event included: the pointer then names a session whose file exists and tells
  nothing of it.  A Close that cannot blank the pointer returns IO_ERROR after
  its event was appended, and notes added then follow it in the file.
- A plan of more than 256 tasks would overrun the records of RunNext; no tool
  writes one.  The model assumes there is none.
- Callers of the scheduler are assumed to report once what they hold;
  MarkCompleted does not check it.
- `Run` reads the status and the proposal of a record by two opens; nothing can
  write in between, since tools run one after the other.
- The status query reports `staged_for_review` for an application whose
  approval was taken back since.
- A plan of tasks that is cut looks shorter, hence finished earlier; a full
  disk that cuts it goes unnoticed.  Creating a plan again resets its progress.
- A manifest that is cut, or blank, still makes Create refuse until Clean.
- The verdict that evidence gives a run (clock and baseline) changes words and
  one count only, and is left out.
- Nothing in the repository passes `--schedule` to the self-update tool; what
  is checked is what the tool does when somebody does.

## 7. Not modelled

The denominator of any line count of this repository is dominated by older
copies of the same sources: `.ncos_packages/*/Payload`, `.nexiora_sprints` and
`Knowledge/NCOS/PackageBackups` hold about seven tenths of its C lines, and the
models are of the current ones under `Source/` and `Tools/`, once.  Of those:

- *Research kernel, experiment records, pipeline*: only the tests call them;
  a list with a file, setters, six callbacks in a row.
- *Evidence, promotion and hardware gates of NCP*: functions of one run that
  keep nothing.
- *Snapshots* (`NxWorkspaceManifest.inc`) and the notes of a plan: they compare
  files and write one report; a plan's reader skips its notes.
- *Build, diagnostic, repair and source analysers*: they read a log and format
  a report.
- *Knowledge, concepts, answering, cognitive cores, acquisition*: text
  processing and scoring.  What they keep is a file written or appended in one
  operation; where an operation touches several (an ingestion appends to
  sources, chunks and memory and rewrites the concepts) it undoes nothing when
  a later one fails and takes the same file twice, and no document says what
  should hold then.  Their results are functions of text, which a model of this
  kind would have to spell out.
- *NCP core*: single-owner containers and an allocation counter; a model of
  realloc would restate it.
- *Governance, bootstrap, console*: existence checks, dispatch, screen output.

`PROJECT.json` gives the reason for each component.

## 8. Left to do

1. Two package managers at once: it needs a decision of the code's owners on
   what should hold.
2. What the history still guarantees when the counter is lost or the process
   dies before it is written: ids are used twice then, and no property says of
   which transaction a log is.
3. A weaker store that the installer implements when copies fail: one whose
   Rollback is void after a failed install.
4. Crashes under PackageUpdate, whose state space is now bounded by time.
