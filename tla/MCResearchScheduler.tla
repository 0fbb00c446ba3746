------------------------ MODULE MCResearchScheduler ------------------------
(***************************************************************************)
(* Callers: a task with two runs, one without a limit that starts later,   *)
(* one whose runs were used up before it was added, and a disabled one.    *)
(* An execution: three experiments, two of them ready.                     *)
(***************************************************************************)
EXTENDS AutonomousExecution

Descriptor(priority, max_runs, runs, tick, state) ==
    [priority |-> priority, max_runs |-> max_runs, completed_runs |-> runs,
     next_tick |-> tick, state |-> state]

MCDescriptors ==
    {Descriptor(1, 2, 0, 0, "pending"), Descriptor(0, 0, 0, 2, "pending"),
     Descriptor(1, 1, 1, 0, "pending"), Descriptor(2, 1, 0, 0, "disabled")}

Experiment(priority, ready) == [priority |-> priority, ready |-> ready]

MCExperiments ==
    <<Experiment(1, TRUE), Experiment(3, FALSE), Experiment(2, TRUE)>>
=============================================================================
