------------------------ MODULE AutonomousExecution ------------------------
(***************************************************************************)
(* An autonomous execution (NxAutonomousExecution.c): the experiments that *)
(* are ready become tasks of a scheduler, and each task in turn is run     *)
(* (NxExperimentRunner.c), told to the journal (NxJournal.c) and put in a  *)
(* graph (NxResearchGraph.c); the counts are written at the end.  What the *)
(* evidence says of a run changes only words and one count, left out here. *)
(* Scheduler and graph live in memory and die with the process; journal    *)
(* and metrics are files that the next execution finds.                    *)
(*                                                                         *)
(* Losing a line of the journal or a node of the graph is told to nobody.  *)
(***************************************************************************)
EXTENDS ResearchScheduler, FiniteSets

CONSTANTS
    Experiments,   \* what is registered: a sequence of [priority, ready]
    NodeRoom, EdgeRoom, \* initial capacities of the graph, 16 and 32
    MaxExecutions  \* bound of the model

\* NxDiscoveryEngine_Discover with the predicate Ready.
Discovered == SelectSeq(Experiments, LAMBDA e : e.ready)

\* A filter returns some of what it is given.
ASSUME ExecutionAssumption ==
    /\ {Experiments, Discovered} \subseteq Seq([priority : Int, ready : BOOLEAN])
    /\ Len(Discovered) <= TaskLimit
    /\ Span > 1
    /\ {NodeRoom, EdgeRoom} \subseteq Nat \ {0}
    /\ MaxExecutions \in Nat

VARIABLES
    user,      \* who uses the scheduler: its other callers, or an execution
    at,        \* where the execution is
    held,      \* the task it selected
    executed,  \* result_out->experiments_executed
    graph,     \* nodes by id, edges, and the room that is allocated for both
    manifest_node,
    journal,   \* journal.jsonl, with the execution that wrote each line
    metrics,   \* metrics.json: its count, and the execution that wrote it
    execution  \* how many executions have begun

executionVars ==
    <<user, at, held, executed, graph, manifest_node, journal, metrics, execution>>

NoGraph   == [nodes |-> <<>>, edges |-> {}, node_room |-> 0, edge_room |-> 0]
NoMetrics == [execution |-> 0, executed |-> 0]

ExecutionInit ==
    /\ Empty
    /\ user \in {"callers", "execution"}
    /\ at = "off" /\ held = 0 /\ executed = 0
    /\ graph = NoGraph /\ manifest_node = 0
    /\ journal = <<>> /\ metrics = NoMetrics /\ execution = 0

-----------------------------------------------------------------------------
(* The graph: ids are positions, from 1; an operation that fails leaves the *)
(* graph, and the variable for its id, as they were.                        *)

Grown(room, first) == IF room = 0 THEN first ELSE 2 * room

\* The graphs and ids AddNode may leave, `id` being what the variable held.
AddNode(g, type, run, id) ==
    LET full  == Len(g.nodes) = g.node_room
        added == [g EXCEPT !.nodes = Append(@, [type |-> type, run |-> run]),
                           !.node_room = IF full THEN Grown(@, NodeRoom) ELSE @]
    IN  {[graph |-> added, id |-> Len(added.nodes)]}
           \cup (IF full THEN {[graph |-> g, id |-> id]} ELSE {})

AddEdge(g, from, to) ==
    LET full  == Cardinality(g.edges) = g.edge_room
        added == [g EXCEPT !.edges = @ \cup {<<from, to>>},
                           !.edge_room = IF full THEN Grown(@, EdgeRoom) ELSE @]
    IN  IF {from, to} \subseteq DOMAIN g.nodes
        THEN {added} \cup (IF full THEN {g} ELSE {})
        ELSE {g}

\* What the variables for the ids of a run hold before the nodes are added; in
\* the mutant, an id of the run before.
Unset_Stale(g) == Len(g.nodes)
Unset(g) == 0

-----------------------------------------------------------------------------
(* The execution *)

\* A line of the journal is written, or lost.
Written(kind, run) ==
    {journal, Append(journal, [execution |-> execution, kind |-> kind, run |-> run])}

Destroyed ==
    /\ tasks' = <<>> /\ current_tick' = 0 /\ holders' = <<>> /\ rest' = <<>>
    /\ wrapped' = FALSE

Over ==
    /\ at' = "off" /\ held' = 0 /\ executed' = 0
    /\ graph' = NoGraph /\ manifest_node' = 0
    /\ Destroyed

Begin ==
    /\ at = "off"
    /\ execution < MaxExecutions
    /\ execution' = execution + 1
    /\ at' = "adding"
    /\ UNCHANGED <<schedulerVars, user, held, executed, graph, manifest_node, journal, metrics>>

\* The mutant leaves the number of runs without a limit.
TaskOf_Unlimited(e) ==
    [priority |-> e.priority, max_runs |-> 0, completed_runs |-> 0,
     next_tick |-> 0, state |-> "pending"]
TaskOf(e) ==
    [priority |-> e.priority, max_runs |-> 1, completed_runs |-> 0,
     next_tick |-> 0, state |-> "pending"]

AddExperiment ==
    /\ at = "adding"
    /\ Len(tasks) < Len(Discovered)
    /\ Add(TaskOf(Discovered[Len(tasks) + 1]))
    /\ UNCHANGED executionVars

\* The journal is opened and the manifest's node added; the execution goes on
\* without that node.
OpenJournal ==
    /\ at = "adding"
    /\ Len(tasks) = Len(Discovered)
    /\ \E m \in AddNode(NoGraph, "manifest", 0, 0) :
          graph' = m.graph /\ manifest_node' = m.id
    /\ at' = "loop"
    /\ UNCHANGED <<schedulerVars, user, held, executed, journal, metrics, execution>>

JournalFails ==
    /\ at = "adding"
    /\ Len(tasks) = Len(Discovered)
    /\ Over
    /\ UNCHANGED <<user, journal, metrics, execution>>

\* SelectNext, and the line that says the experiment has started.
Start(k) ==
    /\ at = "loop"
    /\ executed < Len(Discovered)
    /\ SelectTask(k)
    /\ held' = k
    /\ journal' \in Written("started", k)
    /\ at' = "run"
    /\ UNCHANGED <<user, executed, graph, manifest_node, metrics, execution>>

Complete ==
    /\ at = "run"
    /\ journal' \in Written("completed", held)
    /\ executed' = executed + 1
    /\ at' = "record"
    /\ UNCHANGED <<schedulerVars, user, held, graph, manifest_node, metrics, execution>>

\* Three nodes and three edges, then MarkCompleted.
Record ==
    /\ at = "record"
    /\ \E x \in AddNode(graph, "experiment", held, Unset(graph)) :
       \E v \in AddNode(x.graph, "evidence", held, Unset(graph)) :
       \E p \in AddNode(v.graph, "promotion", held, Unset(graph)) :
       \E declared \in AddEdge(p.graph, manifest_node, x.id) :
       \E produced \in AddEdge(declared, x.id, v.id) :
          graph' \in AddEdge(produced, v.id, p.id)
    /\ MarkTaskCompleted(held, 0)
    /\ held' = 0
    /\ at' = "loop"
    /\ UNCHANGED <<user, executed, manifest_node, journal, metrics, execution>>

\* The loop is over: metrics.json is written, cut short by a full disk (the old
\* one is lost) or, when it cannot be opened, left as it was.
Finish ==
    /\ at = "loop"
    /\ executed = Len(Discovered) \/ \A k \in DOMAIN tasks : ~IsEligible(tasks[k])
    /\ metrics' \in {metrics, NoMetrics,
                     [execution |-> execution, executed |-> executed]}
    /\ Over
    /\ UNCHANGED <<user, journal, execution>>

ExecutionCrash ==
    /\ at # "off"
    /\ Over
    /\ UNCHANGED <<user, journal, metrics, execution>>

ExecutionNext ==
    \/ Begin \/ AddExperiment \/ OpenJournal \/ JournalFails
    \/ \E k \in DOMAIN tasks : Start(k)
    \/ Complete \/ Record \/ Finish
    \/ ExecutionCrash

\* Either the scheduler's other callers or an execution.
SchedulerUse ==
    \/ user = "callers" /\ SchedulerNext /\ UNCHANGED executionVars
    \/ user = "execution" /\ ExecutionNext

ExecutionSpec == ExecutionInit /\ [][SchedulerUse]_<<schedulerVars, executionVars>>

-----------------------------------------------------------------------------
(* Properties *)

ExecutionTypeOK ==
    /\ user \in {"callers", "execution"}
    /\ at \in {"off", "adding", "loop", "run", "record"}
    /\ held \in 0 .. Len(tasks)
    /\ executed \in 0 .. Len(Discovered)
    /\ graph.nodes \in Seq([type : {"manifest", "experiment", "evidence", "promotion"},
                            run : 0 .. Len(Discovered)])
    /\ graph.edges \in SUBSET ((DOMAIN graph.nodes) \X (DOMAIN graph.nodes))
    /\ manifest_node \in {0, 1}
    /\ journal \in Seq([execution : 1 .. execution, kind : {"started", "completed"},
                        run : 1 .. Len(Discovered)])
    /\ metrics.execution \in 0 .. execution
    /\ execution \in 0 .. MaxExecutions

\* The three kinds of edges RunDefault draws.
Follows(from, to) ==
    \/ from.type = "manifest" /\ to.type = "experiment"
    \/ from.type = "experiment" /\ to.type = "evidence" /\ from.run = to.run
    \/ from.type = "evidence" /\ to.type = "promotion" /\ from.run = to.run

\* However many allocations fail while their results are dropped, no edge of the
\* graph joins an experiment to the evidence or the review of another.
EdgesFollowRuns ==
    \A e \in graph.edges : Follows(graph.nodes[e[1]], graph.nodes[e[2]])

\* Whether line m is written after line l in one execution: experiments come by
\* priority, then in the order of registration, and each starts, then completes.
LineBefore(l, m) ==
    LET p == Discovered[l.run].priority
        q == Discovered[m.run].priority
    IN  \/ p > q
        \/ p = q /\ l.run < m.run
        \/ l.run = m.run /\ l.kind = "started" /\ m.kind = "completed"

CompletedLines(x) ==
    {i \in DOMAIN journal : journal[i].execution = x /\ journal[i].kind = "completed"}

\* The journal tells the executions as they happened, whatever lines are lost
\* and wherever the process dies: the lines of one execution are in the order of
\* priority, no experiment twice, and the metrics an execution leaves count
\* every run the journal says completed.
JournalTells ==
    /\ \A i, j \in DOMAIN journal :
          i < j /\ journal[i].execution = journal[j].execution
            => LineBefore(journal[i], journal[j])
    /\ Cardinality(CompletedLines(metrics.execution)) <= metrics.executed
=============================================================================
