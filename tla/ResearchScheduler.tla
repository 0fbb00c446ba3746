-------------------------- MODULE ResearchScheduler --------------------------
(***************************************************************************)
(* The scheduler of research tasks, Source/Research/NxResearchScheduler.c. *)
(*                                                                         *)
(* A task is known by its position: callers number the tasks they add (as  *)
(* NxAutonomousExecution.c:257 does), so the id that MarkCompleted and     *)
(* Disable search for is found where it was added.  Ticks and run counters *)
(* are unsigned and wrap at Span (2^32 in the code).                       *)
(***************************************************************************)
EXTENDS Integers, Sequences

CONSTANTS
    Span,        \* number of values of an unsigned int
    TaskLimit,   \* capacity given to Init
    Descriptors, \* tasks as they are given to Add
    Cooldowns,   \* cooldown_ticks given to MarkCompleted
    Ticks        \* ticks given to AdvanceTick

Unsigned   == 0 .. Span - 1
TaskStates == {"pending", "running", "completed", "disabled"}
Task       == [priority : Int, max_runs : Unsigned, completed_runs : Unsigned,
               next_tick : Unsigned, state : TaskStates]

ASSUME SchedulerAssumption ==
    /\ Span \in Nat \ {0}
    /\ TaskLimit \in Nat
    \* a task that is added as running, or over its limit, was never handed out
    /\ Descriptors \subseteq {t \in Task : t.state # "running"}
    /\ Cooldowns \subseteq Unsigned
    /\ Ticks \subseteq Unsigned

VARIABLES
    tasks,        \* scheduler->tasks[0 .. count - 1]
    current_tick,
    \* history variables: how many callers hold a task, how many ticks of its
    \* cooldown are left, and whether a sum of ticks has wrapped
    holders, rest, wrapped

schedulerVars == <<tasks, current_tick, holders, rest, wrapped>>

\* Init, and Destroy followed by Init.
Empty == tasks = <<>> /\ current_tick = 0 /\ holders = <<>> /\ rest = <<>> /\ wrapped = FALSE

\* What is left of a number when it is counted down, never below 0.
Left(n) == IF n > 0 THEN n ELSE 0

TaskRoom_OffByOne == Len(tasks) <= TaskLimit
TaskRoom == Len(tasks) < TaskLimit

Add(t) ==
    /\ TaskRoom
    /\ tasks' = Append(tasks, t)
    /\ holders' = Append(holders, 0)
    /\ rest' = Append(rest, Left(t.next_tick - current_tick))
    /\ UNCHANGED <<current_tick, wrapped>>

RunsLeft(t) == t.max_runs = 0 \/ t.completed_runs < t.max_runs

IsEligible_Uncapped(t) == t.state = "pending" /\ t.next_tick <= current_tick
IsEligible_Shared(t) ==
    t.state \notin {"disabled", "completed"} /\ RunsLeft(t) /\ t.next_tick <= current_tick
IsEligible(t) == t.state = "pending" /\ RunsLeft(t) /\ t.next_tick <= current_tick

\* The task SelectNext returns: of the highest priority, the first added.
Chosen(k) ==
    /\ IsEligible(tasks[k])
    /\ \A n \in DOMAIN tasks : IsEligible(tasks[n]) =>
          \/ tasks[k].priority > tasks[n].priority
          \/ tasks[k].priority = tasks[n].priority /\ k <= n

SelectTask(k) ==
    /\ Chosen(k)
    /\ tasks' = [tasks EXCEPT ![k].state = "running"]
    /\ holders' = [holders EXCEPT ![k] = @ + 1]
    /\ UNCHANGED <<current_tick, rest, wrapped>>

Reported_NoCooldown(t, cooldown) ==
    LET runs == (t.completed_runs + 1) % Span
    IN  IF t.max_runs # 0 /\ runs >= t.max_runs
        THEN [t EXCEPT !.completed_runs = runs, !.state = "completed"]
        ELSE [t EXCEPT !.completed_runs = runs, !.state = "pending"]
\* What MarkCompleted makes of a task, whatever its state.
Reported(t, cooldown) ==
    LET runs == (t.completed_runs + 1) % Span
    IN  IF t.max_runs # 0 /\ runs >= t.max_runs
        THEN [t EXCEPT !.completed_runs = runs, !.state = "completed"]
        ELSE [t EXCEPT !.completed_runs = runs, !.state = "pending",
                       !.next_tick = (current_tick + cooldown) % Span]

\* Any task that is known can be reported, whether it was handed out or not.
MarkTaskCompleted(k, cooldown) ==
    /\ tasks' = [tasks EXCEPT ![k] = Reported(@, cooldown)]
    /\ holders' = [holders EXCEPT ![k] = Left(@ - 1)]
    /\ rest' = [rest EXCEPT ![k] = cooldown]
    /\ wrapped' = (wrapped \/ current_tick + cooldown >= Span)
    /\ UNCHANGED current_tick

\* What is assumed of callers, since MarkCompleted does not ask: each reports
\* what SelectNext gave it, and reports it once, as NxAutonomousExecution does.
Report(k, cooldown) == holders[k] > 0 /\ MarkTaskCompleted(k, cooldown)

Disable(k) ==
    /\ tasks' = [tasks EXCEPT ![k].state = "disabled"]
    /\ UNCHANGED <<current_tick, holders, rest, wrapped>>

AdvanceTick(ticks) ==
    /\ current_tick' = (current_tick + ticks) % Span
    /\ rest' = [k \in DOMAIN rest |-> Left(rest[k] - ticks)]
    /\ wrapped' = (wrapped \/ current_tick + ticks >= Span)
    /\ UNCHANGED <<tasks, holders>>

SchedulerNext ==
    \/ \E t \in Descriptors : Add(t)
    \/ \E k \in DOMAIN tasks : SelectTask(k)
    \/ \E k \in DOMAIN tasks, c \in Cooldowns : Report(k, c)
    \/ \E k \in DOMAIN tasks : Disable(k)
    \/ \E t \in Ticks : AdvanceTick(t)

SchedulerSpec == Empty /\ [][SchedulerNext]_schedulerVars

-----------------------------------------------------------------------------
(* Properties *)

\* Every variable keeps its range.
SchedulerTypeOK ==
    /\ tasks \in Seq(Task) /\ Len(tasks) <= TaskLimit
    /\ current_tick \in Unsigned
    /\ holders \in Seq(Nat) /\ Len(holders) = Len(tasks)
    /\ rest \in Seq(Nat) /\ Len(rest) = Len(tasks)
    /\ wrapped \in BOOLEAN

\* A task is in the hands of one caller at a time, even when it was disabled
\* and its report comes late: several selections may be out before any report.
OneHolder == \A k \in DOMAIN tasks : holders[k] <= 1

\* SPEC-NRL-0012-ResearchScheduler.md:10 "Respect max-run limits": the runs that
\* have been reported and the one that is out never exceed the limit, however
\* selections, late reports and disabling interleave, and for a task that was
\* added with its runs already used as well.
RunsCapped ==
    \A k \in DOMAIN tasks : LET t == tasks[k] IN
       holders[k] > 0 /\ t.max_runs # 0 => t.completed_runs + holders[k] <= t.max_runs

\* SPEC-NRL-0012-ResearchScheduler.md:11 "Respect cooldown ticks": as long as no
\* sum has wrapped, a task that waits with runs left can be selected exactly
\* when the ticks of its cooldown have passed, neither earlier nor later.
CooldownExact ==
    \A k \in DOMAIN tasks : LET t == tasks[k] IN
       ~wrapped /\ t.state = "pending" /\ RunsLeft(t) => (IsEligible(t) <=> rest[k] = 0)

\* RFC-0027-Research-Scheduler.md:10 "allows tasks to be disabled": a task that
\* was disabled stays so, for there is no call that enables it again.  The report
\* of a task that was disabled while it was out does: it is pending afterwards
\* and can be handed out again.
DisabledStays ==
    [][\A k \in DOMAIN tasks : tasks[k].state = "disabled" /\ k \in DOMAIN tasks' =>
          tasks'[k].state = "disabled"]_schedulerVars
=============================================================================
