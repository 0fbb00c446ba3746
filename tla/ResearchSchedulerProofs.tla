----------------------- MODULE ResearchSchedulerProofs -----------------------
(***************************************************************************)
(* Theorems about the scheduler, for every word size, every capacity, and  *)
(* every task, cooldown and tick it is given, and about the executions     *)
(* that use it, for any experiments, any room for the graph and any number *)
(* of executions, with lines and nodes that are lost and a process that    *)
(* dies: what the scheduler promises its other callers it also promises an *)
(* execution, and the graph and the journal of an execution are right.     *)
(***************************************************************************)
EXTENDS AutonomousExecution, FiniteSetTheorems, TLAPS

USE SchedulerAssumption

-----------------------------------------------------------------------------
(* The inductive invariant *)

\* Who holds a task: nobody holds one that waits or is done, exactly one caller
\* holds one that runs, and a task that was disabled may still be out.
HeldByState ==
    \A k \in DOMAIN tasks :
       /\ holders[k] \in {0, 1}
       /\ tasks[k].state \in {"pending", "completed"} => holders[k] = 0
       /\ tasks[k].state = "running" => holders[k] = 1

\* A task that is out has a run left for the report to come.
RunForReport ==
    \A k \in DOMAIN tasks : holders[k] = 1 => RunsLeft(tasks[k])

\* next_tick holds the cooldown that is left.
TickHoldsRest ==
    \A k \in DOMAIN tasks :
       ~wrapped /\ tasks[k].state = "pending" => rest[k] = Left(tasks[k].next_tick - current_tick)

SchedulerInv == SchedulerTypeOK /\ HeldByState /\ RunForReport /\ TickHoldsRest

-----------------------------------------------------------------------------
(* Lemmas *)

\* The range of a task's fields.
LEMMA TaskType ==
    ASSUME NEW t \in Task
    PROVE  /\ t.priority \in Int /\ t.max_runs \in Unsigned /\ t.completed_runs \in Unsigned
           /\ t.next_tick \in Unsigned /\ t.state \in TaskStates
BY DEF Task

\* A reduced sum is an unsigned, and the sum itself when it does not wrap.
LEMMA SumWraps ==
    ASSUME NEW a \in Unsigned, NEW b \in Nat
    PROVE  /\ (a + b) % Span \in Unsigned
           /\ a + b < Span => (a + b) % Span = a + b
BY DEF Unsigned

\* What MarkCompleted makes of a task.
LEMMA ReportedTask ==
    ASSUME SchedulerTypeOK, NEW t \in Task, NEW c \in Unsigned
    PROVE  /\ Reported(t, c) \in Task
           /\ Reported(t, c).state \in {"pending", "completed"}
           /\ Reported(t, c).state = "pending" =>
                 Reported(t, c).next_tick = (current_tick + c) % Span
<1>. DEFINE runs == (t.completed_runs + 1) % Span
            tick == (current_tick + c) % Span
<1>1. runs \in Unsigned /\ tick \in Unsigned
  <2>1. t.completed_runs \in Unsigned /\ current_tick \in Unsigned
    BY TaskType DEF SchedulerTypeOK
  <2>2. c \in Nat /\ 1 \in Nat
    BY DEF Unsigned
  <2>3. (t.completed_runs + 1) % Span \in Unsigned
    BY <2>1, <2>2, SumWraps
  <2>4. (current_tick + c) % Span \in Unsigned
    BY <2>1, <2>2, SumWraps
  <2>. QED  BY <2>3, <2>4
<1>. HIDE DEF runs, tick
<1>2. CASE t.max_runs # 0 /\ runs >= t.max_runs
  <2>1. Reported(t, c) = [t EXCEPT !.completed_runs = runs, !.state = "completed"]
    BY <1>2 DEF Reported, runs
  <2>. QED  BY <1>1, <2>1 DEF Task, TaskStates
<1>3. CASE ~(t.max_runs # 0 /\ runs >= t.max_runs)
  <2>1. Reported(t, c) = [t EXCEPT !.completed_runs = runs, !.state = "pending",
                                   !.next_tick = tick]
    BY <1>3 DEF Reported, runs, tick
  <2>. QED  BY <1>1, <2>1 DEF Task, TaskStates, tick
<1>. QED  BY <1>2, <1>3

-----------------------------------------------------------------------------
(* The initial state and the steps *)

LEMMA EmptyInv == Empty => SchedulerInv
<1>1. Empty => SchedulerTypeOK
  <2>1. 0 \in Unsigned /\ 0 <= TaskLimit
    BY DEF Unsigned
  <2>2. <<>> \in Seq(Task) /\ <<>> \in Seq(Nat) /\ Len(<<>>) = 0
    OBVIOUS
  <2>. QED  BY <2>1, <2>2 DEF Empty, SchedulerTypeOK
<1>2. Empty => HeldByState /\ RunForReport /\ TickHoldsRest
  BY DEF Empty, HeldByState, RunForReport, TickHoldsRest
<1>. QED  BY <1>1, <1>2 DEF SchedulerInv

LEMMA AddInv ==
    ASSUME SchedulerInv, NEW t \in Task, t.state # "running", Add(t)
    PROVE  SchedulerInv'
<1>. DEFINE n == Len(tasks) + 1
<1>0. t \in Task /\ t.state # "running" /\ Len(tasks) \in Nat
  BY DEF SchedulerInv, SchedulerTypeOK
<1>1. SchedulerTypeOK'
  <2>1. Left(t.next_tick - current_tick) \in Nat
    BY <1>0 DEF SchedulerInv, SchedulerTypeOK, Left, Task, Unsigned
  <2>. QED  BY <1>0, <2>1 DEF SchedulerInv, SchedulerTypeOK, Add, TaskRoom
<1>2. /\ DOMAIN tasks' = 1 .. n
      /\ tasks'[n] = t /\ holders'[n] = 0 /\ rest'[n] = Left(t.next_tick - current_tick)
      /\ \A k \in DOMAIN tasks :
            tasks'[k] = tasks[k] /\ holders'[k] = holders[k] /\ rest'[k] = rest[k]
  BY <1>0 DEF SchedulerInv, SchedulerTypeOK, Add
<1>3. \A k \in DOMAIN tasks' : k = n \/ k \in DOMAIN tasks
  BY <1>0, <1>2 DEF SchedulerInv, SchedulerTypeOK
<1>4. HeldByState'
  BY <1>0, <1>2, <1>3 DEF SchedulerInv, HeldByState
<1>5. RunForReport'
  BY <1>0, <1>2, <1>3 DEF SchedulerInv, RunForReport, RunsLeft
<1>6. TickHoldsRest'
  BY <1>2, <1>3 DEF SchedulerInv, TickHoldsRest, Add
<1>. QED  BY <1>1, <1>4, <1>5, <1>6 DEF SchedulerInv

LEMMA SelectInv ==
    ASSUME SchedulerInv, NEW k \in DOMAIN tasks, SelectTask(k)
    PROVE  SchedulerInv'
<1>0. /\ tasks[k] \in Task /\ holders[k] = 0
      /\ tasks[k].state = "pending" /\ RunsLeft(tasks[k])
  BY DEF SchedulerInv, SchedulerTypeOK, HeldByState, SelectTask, Chosen, IsEligible
<1>. DEFINE new == [tasks[k] EXCEPT !.state = "running"]
<1>1. /\ new \in Task /\ new.state = "running"
      /\ new.max_runs = tasks[k].max_runs /\ new.completed_runs = tasks[k].completed_runs
  BY <1>0 DEF Task, TaskStates
<1>2. /\ tasks' = [tasks EXCEPT ![k] = new] /\ holders' = [holders EXCEPT ![k] = 1]
      /\ UNCHANGED <<current_tick, rest, wrapped>>
  BY <1>0 DEF SelectTask, SchedulerInv, SchedulerTypeOK
<1>. HIDE DEF new
<1>3. SchedulerTypeOK'
  BY <1>1, <1>2 DEF SchedulerInv, SchedulerTypeOK
<1>4. /\ DOMAIN tasks' = DOMAIN tasks /\ tasks'[k] = new /\ holders'[k] = 1
      /\ \A n \in DOMAIN tasks \ {k} : tasks'[n] = tasks[n] /\ holders'[n] = holders[n]
  BY <1>2 DEF SchedulerInv, SchedulerTypeOK
<1>5. HeldByState'
  BY <1>1, <1>4 DEF SchedulerInv, HeldByState
<1>6. RunForReport'
  BY <1>0, <1>1, <1>4 DEF SchedulerInv, RunForReport, RunsLeft
<1>7. TickHoldsRest'
  BY <1>1, <1>2, <1>4 DEF SchedulerInv, TickHoldsRest
<1>. QED  BY <1>3, <1>5, <1>6, <1>7 DEF SchedulerInv

LEMMA MarkInv ==
    ASSUME SchedulerInv, NEW k \in DOMAIN tasks, NEW c \in Unsigned, Report(k, c)
    PROVE  SchedulerInv'
<1>0. /\ tasks[k] \in Task /\ holders[k] = 1 /\ c \in Unsigned /\ current_tick \in Unsigned
      /\ MarkTaskCompleted(k, c) /\ Left(holders[k] - 1) = 0
  BY DEF SchedulerInv, SchedulerTypeOK, HeldByState, Report, Left
<1>. DEFINE new == Reported(tasks[k], c)
<1>1. /\ new \in Task /\ new.state \in {"pending", "completed"}
      /\ new.state = "pending" => new.next_tick = (current_tick + c) % Span
  BY <1>0, ReportedTask DEF SchedulerInv
<1>2. /\ tasks' = [tasks EXCEPT ![k] = new] /\ holders' = [holders EXCEPT ![k] = 0]
      /\ rest' = [rest EXCEPT ![k] = c] /\ current_tick' = current_tick
      /\ wrapped' = (wrapped \/ current_tick + c >= Span)
  BY <1>0 DEF MarkTaskCompleted, SchedulerInv, SchedulerTypeOK
<1>. HIDE DEF new
<1>3. SchedulerTypeOK'
  BY <1>0, <1>1, <1>2 DEF SchedulerInv, SchedulerTypeOK, Unsigned
<1>4. /\ DOMAIN tasks' = DOMAIN tasks /\ tasks'[k] = new /\ holders'[k] = 0 /\ rest'[k] = c
      /\ \A n \in DOMAIN tasks \ {k} :
            tasks'[n] = tasks[n] /\ holders'[n] = holders[n] /\ rest'[n] = rest[n]
  BY <1>2 DEF SchedulerInv, SchedulerTypeOK
<1>5. HeldByState'
  BY <1>1, <1>4 DEF SchedulerInv, HeldByState
<1>6. RunForReport'
  BY <1>4 DEF SchedulerInv, RunForReport, RunsLeft
<1>7. TickHoldsRest'
  <2>1. ~wrapped' /\ new.state = "pending" => c = Left(new.next_tick - current_tick)
    <3>0. c \in Nat
      BY <1>0 DEF Unsigned
    <3>1. current_tick + c < Span => (current_tick + c) % Span = current_tick + c
      BY <1>0, <3>0, SumWraps
    <3>2. Left((current_tick + c) - current_tick) = c
      BY <1>0 DEF Left, Unsigned
    <3>3. current_tick + c < Span \/ current_tick + c >= Span
      BY <1>0 DEF Unsigned
    <3>. QED  BY <1>1, <1>2, <3>1, <3>2, <3>3
  <2>. QED  BY <1>2, <1>4, <2>1 DEF SchedulerInv, TickHoldsRest
<1>. QED  BY <1>3, <1>5, <1>6, <1>7 DEF SchedulerInv

LEMMA DisableInv ==
    ASSUME SchedulerInv, NEW k \in DOMAIN tasks, Disable(k)
    PROVE  SchedulerInv'
<1>. DEFINE new == [tasks[k] EXCEPT !.state = "disabled"]
<1>0. tasks[k] \in Task
  BY DEF SchedulerInv, SchedulerTypeOK
<1>1. /\ new \in Task /\ new.state = "disabled"
      /\ new.max_runs = tasks[k].max_runs /\ new.completed_runs = tasks[k].completed_runs
  BY <1>0 DEF Task, TaskStates
<1>2. /\ tasks' = [tasks EXCEPT ![k] = new]
      /\ UNCHANGED <<current_tick, holders, rest, wrapped>>
  BY DEF Disable
<1>. HIDE DEF new
<1>3. SchedulerTypeOK'
  BY <1>1, <1>2 DEF SchedulerInv, SchedulerTypeOK
<1>4. /\ DOMAIN tasks' = DOMAIN tasks /\ tasks'[k] = new
      /\ \A n \in DOMAIN tasks \ {k} : tasks'[n] = tasks[n]
  BY <1>2 DEF SchedulerInv, SchedulerTypeOK
<1>5. HeldByState'
  BY <1>1, <1>2, <1>4 DEF SchedulerInv, HeldByState
<1>6. RunForReport'
  BY <1>1, <1>2, <1>4 DEF SchedulerInv, RunForReport, RunsLeft
<1>7. TickHoldsRest'
  BY <1>1, <1>2, <1>4 DEF SchedulerInv, TickHoldsRest
<1>. QED  BY <1>3, <1>5, <1>6, <1>7 DEF SchedulerInv

LEMMA AdvanceInv ==
    ASSUME SchedulerInv, NEW ticks \in Ticks, AdvanceTick(ticks)
    PROVE  SchedulerInv'
<1>0. ticks \in Unsigned /\ current_tick \in Unsigned
  BY DEF SchedulerInv, SchedulerTypeOK
<1>1. \A k \in DOMAIN rest : rest[k] \in Nat /\ Left(rest[k] - ticks) \in Nat
  BY <1>0 DEF SchedulerInv, SchedulerTypeOK, Left, Unsigned
<1>2. SchedulerTypeOK'
  <2>0. ticks \in Nat
    BY <1>0 DEF Unsigned
  <2>1. current_tick' \in Unsigned
    BY <1>0, <2>0, SumWraps DEF AdvanceTick
  <2>2. rest' \in Seq(Nat) /\ Len(rest') = Len(rest)
    <3>1. Len(rest) \in Nat /\ DOMAIN rest = 1 .. Len(rest)
      BY DEF SchedulerInv, SchedulerTypeOK
    <3>2. rest' = [k \in 1 .. Len(rest) |-> Left(rest[k] - ticks)]
      BY <3>1 DEF AdvanceTick
    <3>3. \A k \in 1 .. Len(rest) : Left(rest[k] - ticks) \in Nat
      BY <1>1, <3>1
    <3>. QED  BY <3>1, <3>2, <3>3
  <2>. QED  BY <2>1, <2>2 DEF AdvanceTick, SchedulerInv, SchedulerTypeOK
<1>3. HeldByState' /\ RunForReport'
  BY DEF AdvanceTick, SchedulerInv, HeldByState, RunForReport, RunsLeft
<1>4. TickHoldsRest'
  <2>. SUFFICES ASSUME NEW k \in DOMAIN tasks, ~wrapped', tasks[k].state = "pending"
                PROVE  rest'[k] = Left(tasks[k].next_tick - current_tick')
    BY DEF TickHoldsRest, AdvanceTick
  <2>1. ~wrapped /\ current_tick' = current_tick + ticks
    <3>1. ~wrapped /\ ~(current_tick + ticks >= Span)
      BY DEF AdvanceTick
    <3>2. ticks \in Nat /\ current_tick + ticks < Span
      BY <1>0, <3>1 DEF Unsigned
    <3>. QED  BY <1>0, <3>1, <3>2, SumWraps DEF AdvanceTick
  <2>2. rest[k] = Left(tasks[k].next_tick - current_tick)
    BY <2>1 DEF SchedulerInv, TickHoldsRest
  <2>3. rest'[k] = Left(rest[k] - ticks)
    BY DEF AdvanceTick, SchedulerInv, SchedulerTypeOK
  <2>4. tasks[k].next_tick \in Unsigned
    <3>1. tasks[k] \in Task
      BY DEF SchedulerInv, SchedulerTypeOK
    <3>. QED  BY <3>1, TaskType
  <2>. QED  BY <1>0, <2>1, <2>2, <2>3, <2>4 DEF Left, Unsigned
<1>. QED  BY <1>2, <1>3, <1>4 DEF SchedulerInv

LEMMA SchedulerStep == SchedulerInv /\ [SchedulerNext]_schedulerVars => SchedulerInv'
<1>. SUFFICES ASSUME SchedulerInv, [SchedulerNext]_schedulerVars
              PROVE  SchedulerInv'
  OBVIOUS
<1>1. ASSUME NEW t \in Descriptors, Add(t)
      PROVE  SchedulerInv'
  BY <1>1, AddInv
<1>2. ASSUME NEW k \in DOMAIN tasks, SelectTask(k)
      PROVE  SchedulerInv'
  BY <1>2, SelectInv
<1>3. ASSUME NEW k \in DOMAIN tasks, NEW c \in Cooldowns, Report(k, c)
      PROVE  SchedulerInv'
  BY <1>3, MarkInv
<1>4. ASSUME NEW k \in DOMAIN tasks, Disable(k)
      PROVE  SchedulerInv'
  BY <1>4, DisableInv
<1>5. ASSUME NEW t \in Ticks, AdvanceTick(t)
      PROVE  SchedulerInv'
  BY <1>5, AdvanceInv
<1>6. CASE UNCHANGED schedulerVars
  BY <1>6 DEF schedulerVars, SchedulerInv, SchedulerTypeOK, HeldByState, RunForReport,
              RunsLeft, TickHoldsRest
<1>. QED  BY <1>1, <1>2, <1>3, <1>4, <1>5, <1>6 DEF SchedulerNext

\* Each property of a state that the inductive invariant implies.
LEMMA OneHolderFollows == SchedulerInv => OneHolder
BY DEF SchedulerInv, HeldByState, OneHolder

LEMMA RunsCappedFollows == SchedulerInv => RunsCapped
<1>. SUFFICES ASSUME SchedulerInv, NEW k \in DOMAIN tasks,
                     holders[k] > 0, tasks[k].max_runs # 0
              PROVE  tasks[k].completed_runs + holders[k] <= tasks[k].max_runs
  BY DEF RunsCapped
<1>1. holders[k] = 1 /\ tasks[k] \in Task
  BY DEF SchedulerInv, SchedulerTypeOK, HeldByState
<1>2. RunsLeft(tasks[k])
  BY <1>1 DEF SchedulerInv, RunForReport
<1>. QED  BY <1>1, <1>2, TaskType DEF RunsLeft, Unsigned

LEMMA CooldownExactFollows == SchedulerInv => CooldownExact
<1>. SUFFICES ASSUME SchedulerInv, NEW k \in DOMAIN tasks,
                     ~wrapped, tasks[k].state = "pending", RunsLeft(tasks[k])
              PROVE  IsEligible(tasks[k]) <=> rest[k] = 0
  BY DEF CooldownExact
<1>1. tasks[k] \in Task /\ current_tick \in Unsigned
  BY DEF SchedulerInv, SchedulerTypeOK
<1>2. rest[k] = Left(tasks[k].next_tick - current_tick)
  BY DEF SchedulerInv, TickHoldsRest
<1>3. rest[k] = 0 <=> tasks[k].next_tick <= current_tick
  BY <1>1, <1>2, TaskType DEF Left, Unsigned
<1>. QED  BY <1>3 DEF IsEligible

LEMMA SchedulerInvariant == SchedulerSpec => []SchedulerInv
BY EmptyInv, SchedulerStep, PTL DEF SchedulerSpec

-----------------------------------------------------------------------------
(* The theorems about the scheduler *)

\* Every variable keeps its range, whatever wraps.
THEOREM SchedulerTypeCorrect == SchedulerSpec => []SchedulerTypeOK
<1>1. SchedulerInv => SchedulerTypeOK
  BY DEF SchedulerInv
<1>. QED  BY <1>1, SchedulerInvariant, PTL

\* No task is handed to two callers, although a disabled one may be out and its
\* report makes it pending again.
THEOREM TasksHaveOneHolder == SchedulerSpec => []OneHolder
BY OneHolderFollows, SchedulerInvariant, PTL

\* The limit of a task covers its reported runs and the one that is out.
THEOREM RunsAreCapped == SchedulerSpec => []RunsCapped
BY RunsCappedFollows, SchedulerInvariant, PTL

\* Until a sum of ticks wraps, a cooldown ends when its ticks have passed.
THEOREM CooldownIsExact == SchedulerSpec => []CooldownExact
BY CooldownExactFollows, SchedulerInvariant, PTL

-----------------------------------------------------------------------------
USE ExecutionAssumption

-----------------------------------------------------------------------------
(* Executions: the inductive invariant of the scheduler and the graph *)

NodeTypes == {"manifest", "experiment", "evidence", "promotion"}
Node      == [type : NodeTypes, run : Nat]
Graph     == [nodes : Seq(Node), edges : SUBSET (Nat \X Nat), node_room : Nat, edge_room : Nat]

\* Edges join nodes that are there and that follow each other.
Sound(g) ==
    /\ g \in Graph
    /\ \A e \in g.edges : /\ e[1] \in DOMAIN g.nodes /\ e[2] \in DOMAIN g.nodes
                          /\ Follows(g.nodes[e[1]], g.nodes[e[2]])

\* An id is that of the node it was given for, or unset.
Names(g, id, type, run) ==
    id # 0 => id \in DOMAIN g.nodes /\ g.nodes[id] = [type |-> type, run |-> run]

\* Nodes are only added.
Extends(h, g) ==
    \A id \in DOMAIN g.nodes : id \in DOMAIN h.nodes /\ h.nodes[id] = g.nodes[id]

ExecutionInv ==
    /\ SchedulerInv
    /\ Sound(graph)
    /\ Names(graph, manifest_node, "manifest", 0)
    /\ held \in Nat
    /\ at \in {"run", "record"} =>
          user = "execution" /\ held \in DOMAIN tasks /\ holders[held] = 1

-----------------------------------------------------------------------------
(* Lemmas about graphs *)

\* The fields of a graph.
LEMMA GraphType ==
    ASSUME NEW g \in Graph
    PROVE  /\ g.nodes \in Seq(Node) /\ Len(g.nodes) \in Nat /\ DOMAIN g.nodes = 1 .. Len(g.nodes)
           /\ g.edges \subseteq Nat \X Nat /\ g.node_room \in Nat /\ g.edge_room \in Nat
BY DEF Graph

\* A graph without nodes.
LEMMA NoGraphSound == Sound(NoGraph) /\ NoGraph.nodes = <<>>
<1>1. <<>> \in Seq(Node)
  OBVIOUS
<1>. QED  BY <1>1 DEF Sound, Graph, NoGraph

\* AddNode keeps what is there; its id names the node, or is still unset.
LEMMA NodeAdded ==
    ASSUME NEW g, Sound(g), NEW type \in NodeTypes, NEW run \in Nat,
           NEW m \in AddNode(g, type, run, 0)
    PROVE  Sound(m.graph) /\ Extends(m.graph, g) /\ Names(m.graph, m.id, type, run)
<1>. DEFINE node  == [type |-> type, run |-> run]
            nodes == Append(g.nodes, node)
            n     == Len(g.nodes) + 1
            room  == IF Len(g.nodes) = g.node_room THEN Grown(g.node_room, NodeRoom)
                     ELSE g.node_room
            added == [g EXCEPT !.nodes = nodes, !.node_room = room]
<1>1. g \in Graph
  BY DEF Sound
<1>2. node \in Node
  BY DEF Node
<1>3. /\ nodes \in Seq(Node) /\ Len(nodes) = n /\ DOMAIN nodes = 1 .. n /\ nodes[n] = node
      /\ n \in Nat /\ \A id \in DOMAIN g.nodes : id \in 1 .. n /\ nodes[id] = g.nodes[id]
  BY <1>1, <1>2, GraphType
<1>4. room \in Nat
  BY <1>1, GraphType DEF Grown
<1>5. added \in Graph /\ added.nodes = nodes /\ added.edges = g.edges
  <2>. DEFINE first == [g EXCEPT !.nodes = nodes]
  <2>. HIDE DEF nodes, room
  <2>1. first \in Graph /\ first.nodes = nodes /\ first.edges = g.edges
    BY <1>1, <1>3 DEF Graph
  <2>2. added = [first EXCEPT !.node_room = room]
    OBVIOUS
  <2>. HIDE DEF first, added
  <2>. QED  BY <1>4, <2>1, <2>2 DEF Graph
<1>6. m \in {[graph |-> added, id |-> Len(added.nodes)], [graph |-> g, id |-> 0]}
  <2>1. CASE Len(g.nodes) = g.node_room
    <3>1. added = [g EXCEPT !.nodes = nodes, !.node_room = Grown(g.node_room, NodeRoom)]
      BY <2>1
    <3>. QED  BY <2>1, <3>1 DEF AddNode
  <2>2. CASE Len(g.nodes) # g.node_room
    <3>1. added = [g EXCEPT !.nodes = nodes, !.node_room = g.node_room]
      BY <2>2
    <3>. QED  BY <2>2, <3>1 DEF AddNode
  <2>. QED  BY <2>1, <2>2
<1>. HIDE DEF nodes, n, node, room, added
<1>7. CASE m = [graph |-> g, id |-> 0]
  BY <1>7 DEF Names, Extends
<1>8. CASE m = [graph |-> added, id |-> Len(added.nodes)]
  <2>1. m.graph = added /\ m.id = n
    BY <1>3, <1>5, <1>8
  <2>2. Extends(added, g)
    BY <1>3, <1>5 DEF Extends
  <2>3. Sound(added)
    BY <1>3, <1>5 DEF Sound
  <2>4. Names(added, n, type, run)
    BY <1>3, <1>5 DEF Names, node
  <2>. QED  BY <2>1, <2>2, <2>3, <2>4
<1>. QED  BY <1>6, <1>7, <1>8

\* A node keeps its name when nodes are added.
LEMMA NameKept ==
    ASSUME NEW g, NEW h, Extends(h, g), NEW id, NEW type, NEW run, Names(g, id, type, run)
    PROVE  Names(h, id, type, run)
BY DEF Extends, Names

\* AddEdge adds no node, and an edge only between two that are there.
LEMMA EdgeAdded ==
    ASSUME NEW g, Sound(g), NEW from \in Nat, NEW to \in Nat,
           NEW from_type, NEW from_run, NEW to_type, NEW to_run,
           Names(g, from, from_type, from_run), Names(g, to, to_type, to_run),
           Follows([type |-> from_type, run |-> from_run], [type |-> to_type, run |-> to_run]),
           NEW h \in AddEdge(g, from, to)
    PROVE  Sound(h) /\ Extends(h, g)
<1>1. g \in Graph /\ 0 \notin DOMAIN g.nodes
  BY GraphType DEF Sound
<1>2. CASE h = g
  BY <1>2 DEF Extends
<1>3. CASE h # g
  <2>. DEFINE full  == Cardinality(g.edges) = g.edge_room
              room  == IF full THEN Grown(g.edge_room, EdgeRoom) ELSE g.edge_room
              edges == g.edges \cup {<<from, to>>}
  <2>1. {from, to} \subseteq DOMAIN g.nodes
    BY <1>3 DEF AddEdge
  <2>2. h = [g EXCEPT !.edges = edges, !.edge_room = room]
    BY <1>3 DEF AddEdge
  <2>3. room \in Nat
    BY <1>1, GraphType DEF Grown
  <2>4. edges \subseteq Nat \X Nat
    BY <1>1, GraphType
  <2>. HIDE DEF room, edges
  <2>5. h = [nodes |-> g.nodes, edges |-> edges, node_room |-> g.node_room, edge_room |-> room]
    BY <1>1, <2>2 DEF Graph
  <2>6. h \in Graph /\ h.nodes = g.nodes /\ h.edges = edges
    BY <1>1, <2>3, <2>4, <2>5 DEF Graph
  <2>7. Follows(g.nodes[from], g.nodes[to])
    BY <1>1, <2>1 DEF Names
  <2>8. ASSUME NEW e \in edges
        PROVE  /\ e[1] \in DOMAIN g.nodes /\ e[2] \in DOMAIN g.nodes
               /\ Follows(g.nodes[e[1]], g.nodes[e[2]])
    BY <2>1, <2>7 DEF Sound, edges
  <2>. QED  BY <2>6, <2>8 DEF Sound, Extends
<1>. QED  BY <1>2, <1>3

-----------------------------------------------------------------------------
(* The initial state and the steps *)

\* A sequence holds what it is made of.
LEMMA Element ==
    ASSUME NEW S, NEW s \in Seq(S), NEW n \in DOMAIN s
    PROVE  s[n] \in S
OBVIOUS

\* The tasks of an execution are tasks, and none is running when it is added.
LEMMA ExperimentTask ==
    ASSUME NEW n \in DOMAIN Discovered
    PROVE  TaskOf(Discovered[n]) \in Task /\ TaskOf(Discovered[n]).state # "running"
<1>1. Discovered[n] \in [priority : Int, ready : BOOLEAN]
  <2>1. Discovered \in Seq([priority : Int, ready : BOOLEAN])
    OBVIOUS
  <2>. QED  BY <2>1, Element
<1>2. 0 \in Unsigned /\ 1 \in Unsigned /\ Discovered[n].priority \in Int
  BY <1>1, SchedulerAssumption DEF Unsigned
<1>. QED  BY <1>2 DEF TaskOf, Task, TaskStates

\* The nodes and edges of one run.
LEMMA RecordedGraph ==
    ASSUME Sound(graph), Names(graph, manifest_node, "manifest", 0), held \in Nat,
           manifest_node \in Nat, Record
    PROVE  Sound(graph') /\ Extends(graph', graph)
<1>1. PICK x \in AddNode(graph, "experiment", held, 0) :
      \E v \in AddNode(x.graph, "evidence", held, 0) :
      \E p \in AddNode(v.graph, "promotion", held, 0) :
      \E declared \in AddEdge(p.graph, manifest_node, x.id) :
      \E produced \in AddEdge(declared, x.id, v.id) :
         graph' \in AddEdge(produced, v.id, p.id)
  BY DEF Record, Unset
<1>2. PICK v \in AddNode(x.graph, "evidence", held, 0) :
      \E p \in AddNode(v.graph, "promotion", held, 0) :
      \E declared \in AddEdge(p.graph, manifest_node, x.id) :
      \E produced \in AddEdge(declared, x.id, v.id) :
         graph' \in AddEdge(produced, v.id, p.id)
  BY <1>1, Zenon
<1>3. PICK p \in AddNode(v.graph, "promotion", held, 0) :
      \E declared \in AddEdge(p.graph, manifest_node, x.id) :
      \E produced \in AddEdge(declared, x.id, v.id) :
         graph' \in AddEdge(produced, v.id, p.id)
  BY <1>2, Zenon
<1>4. PICK declared \in AddEdge(p.graph, manifest_node, x.id) :
      \E produced \in AddEdge(declared, x.id, v.id) :
         graph' \in AddEdge(produced, v.id, p.id)
  BY <1>3, Zenon
<1>5. PICK produced \in AddEdge(declared, x.id, v.id) :
         graph' \in AddEdge(produced, v.id, p.id)
  BY <1>4, Zenon
<1>6. /\ Sound(x.graph) /\ Extends(x.graph, graph)
      /\ Names(x.graph, x.id, "experiment", held)
  BY NodeAdded DEF NodeTypes
<1>7. /\ Sound(v.graph) /\ Extends(v.graph, x.graph)
      /\ Names(v.graph, v.id, "evidence", held)
  BY <1>6, NodeAdded DEF NodeTypes
<1>8. /\ Sound(p.graph) /\ Extends(p.graph, v.graph)
      /\ Names(p.graph, p.id, "promotion", held)
  BY <1>7, NodeAdded DEF NodeTypes
<1>9. Names(p.graph, v.id, "evidence", held) /\ Names(v.graph, x.id, "experiment", held)
  BY <1>6, <1>7, <1>8, NameKept
<1>10. Names(p.graph, x.id, "experiment", held)
  BY <1>8, <1>9, NameKept
<1>11. Names(p.graph, manifest_node, "manifest", 0)
  <2>1. Names(x.graph, manifest_node, "manifest", 0)
    BY <1>6, NameKept
  <2>2. Names(v.graph, manifest_node, "manifest", 0)
    BY <1>7, <2>1, NameKept
  <2>. QED  BY <1>8, <2>2, NameKept
<1>12. x.id \in Nat /\ v.id \in Nat /\ p.id \in Nat
  <2>1. ASSUME NEW g, Sound(g), NEW id, NEW type, NEW run, Names(g, id, type, run)
        PROVE  id \in Nat
    <3>1. DOMAIN g.nodes \subseteq Nat
      BY <2>1, GraphType DEF Sound
    <3>. QED  BY <2>1, <3>1 DEF Names
  <2>. QED  BY <1>6, <1>7, <1>8, <2>1
<1>13. Sound(declared) /\ Extends(declared, p.graph)
  BY <1>8, <1>10, <1>11, <1>12, EdgeAdded DEF Follows
<1>14. /\ Names(declared, x.id, "experiment", held)
       /\ Names(declared, v.id, "evidence", held)
       /\ Names(declared, p.id, "promotion", held)
  BY <1>8, <1>9, <1>10, <1>13, NameKept
<1>15. Sound(produced) /\ Extends(produced, declared)
  BY <1>12, <1>13, <1>14, EdgeAdded DEF Follows
<1>16. /\ Names(produced, v.id, "evidence", held)
       /\ Names(produced, p.id, "promotion", held)
  BY <1>14, <1>15, NameKept
<1>17. Sound(graph') /\ Extends(graph', produced)
  BY <1>5, <1>12, <1>15, <1>16, EdgeAdded DEF Follows
<1>18. Extends(graph', graph)
  BY <1>6, <1>7, <1>8, <1>13, <1>15, <1>17 DEF Extends
<1>. QED  BY <1>17, <1>18

\* What an execution leaves behind.
LEMMA OverInv ==
    ASSUME ExecutionInv, Over
    PROVE  ExecutionInv'
<1>1. SchedulerInv'
  <2>1. (Empty => SchedulerInv)'
    BY EmptyInv, PTL
  <2>2. Empty'
    BY DEF Over, Destroyed, Empty
  <2>. QED  BY <2>1, <2>2
<1>2. graph' = NoGraph /\ manifest_node' = 0 /\ held' = 0 /\ at' = "off"
  BY DEF Over
<1>. QED  BY <1>1, <1>2, NoGraphSound DEF ExecutionInv, Names

\* Nothing registered, nothing begun.
LEMMA ExecutionInitInv == ExecutionInit => ExecutionInv
BY EmptyInv, NoGraphSound DEF ExecutionInit, ExecutionInv, Names

\* Every step of the scheduler's callers and of an execution.
LEMMA ExecutionStepInv ==
    ExecutionInv /\ [SchedulerUse]_<<schedulerVars, executionVars>> => ExecutionInv'
<1>. SUFFICES ASSUME ExecutionInv, [SchedulerUse]_<<schedulerVars, executionVars>>
              PROVE  ExecutionInv'
  OBVIOUS
<1>0. /\ SchedulerInv /\ Sound(graph) /\ Names(graph, manifest_node, "manifest", 0)
      /\ held \in Nat
      /\ at \in {"run", "record"} =>
            user = "execution" /\ held \in DOMAIN tasks /\ holders[held] = 1
  BY DEF ExecutionInv
<1>1. ASSUME user = "callers", SchedulerNext, UNCHANGED executionVars PROVE ExecutionInv'
  <2>1. SchedulerInv'
    BY <1>0, <1>1, SchedulerStep
  <2>. QED  BY <1>0, <1>1, <2>1 DEF executionVars, ExecutionInv, Sound, Names
<1>2. ASSUME UNCHANGED schedulerVars, UNCHANGED <<graph, manifest_node, held, user>>,
             at' \in {"run", "record"} => at \in {"run", "record"}
      PROVE  ExecutionInv'
  <2>1. SchedulerInv'
    BY <1>0, <1>2, SchedulerStep
  <2>. QED  BY <1>0, <1>2, <2>1 DEF ExecutionInv, Sound, Names, schedulerVars
<1>3. ASSUME AddExperiment PROVE ExecutionInv'
  <2>1. /\ Len(tasks) + 1 \in DOMAIN Discovered
        /\ Add(TaskOf(Discovered[Len(tasks) + 1]))
    BY <1>0, <1>3 DEF AddExperiment, SchedulerInv, SchedulerTypeOK
  <2>2. SchedulerInv'
    BY <1>0, <2>1, ExperimentTask, AddInv
  <2>. QED  BY <1>0, <1>3, <2>2 DEF AddExperiment, executionVars, ExecutionInv, Sound, Names
<1>4. ASSUME OpenJournal PROVE ExecutionInv'
  <2>1. PICK m \in AddNode(NoGraph, "manifest", 0, 0) :
           graph' = m.graph /\ manifest_node' = m.id
    BY <1>4 DEF OpenJournal
  <2>2. Sound(m.graph) /\ Names(m.graph, m.id, "manifest", 0)
    BY NoGraphSound, NodeAdded DEF NodeTypes
  <2>3. UNCHANGED schedulerVars /\ held' = held /\ at' = "loop"
    BY <1>4 DEF OpenJournal
  <2>4. SchedulerInv'
    BY <1>0, <2>3, SchedulerStep
  <2>. QED  BY <1>0, <2>1, <2>2, <2>3, <2>4 DEF ExecutionInv
<1>5. ASSUME user = "execution", NEW k \in DOMAIN tasks, Start(k) PROVE ExecutionInv'
  <2>1. SelectTask(k) /\ held' = k /\ UNCHANGED <<graph, manifest_node, user>>
    BY <1>5 DEF Start
  <2>2. SchedulerInv'
    BY <1>0, <2>1, SelectInv
  <2>3. k \in Nat /\ k \in DOMAIN tasks' /\ holders'[k] = 1
    <3>1. k \in Nat /\ k \in DOMAIN holders /\ k \in DOMAIN tasks'
      BY <1>0, <2>1 DEF SchedulerInv, SchedulerTypeOK, SelectTask
    <3>2. holders[k] = 0
      BY <1>0, <2>1 DEF SchedulerInv, HeldByState, SelectTask, Chosen, IsEligible
    <3>3. holders' = [holders EXCEPT ![k] = holders[k] + 1]
      BY <2>1 DEF SelectTask
    <3>. QED  BY <3>1, <3>2, <3>3
  <2>. QED  BY <1>0, <1>5, <2>1, <2>2, <2>3 DEF ExecutionInv, Sound, Names
<1>6. ASSUME Record PROVE ExecutionInv'
  <2>1. manifest_node \in Nat
    <3>1. DOMAIN graph.nodes \subseteq Nat
      BY <1>0, GraphType DEF Sound
    <3>. QED  BY <1>0, <3>1 DEF Names
  <2>2. Sound(graph') /\ Extends(graph', graph)
    BY <1>0, <1>6, <2>1, RecordedGraph
  <2>3. /\ MarkTaskCompleted(held, 0) /\ held' = 0 /\ manifest_node' = manifest_node
        /\ at = "record" /\ at' = "loop"
    BY <1>6 DEF Record
  <2>4. held \in DOMAIN tasks /\ 0 \in Unsigned /\ Report(held, 0)
    BY <1>0, <2>3, SchedulerAssumption DEF Unsigned, Report
  <2>5. SchedulerInv'
    BY <1>0, <2>3, <2>4, MarkInv
  <2>6. Names(graph', manifest_node, "manifest", 0)
    BY <1>0, <2>2, NameKept
  <2>. QED  BY <2>2, <2>3, <2>5, <2>6 DEF ExecutionInv
<1>7. ASSUME Over PROVE ExecutionInv'
  BY <1>7, OverInv
<1>8. ASSUME Begin \/ Complete PROVE ExecutionInv'
  BY <1>2, <1>8 DEF Begin, Complete
<1>9. ASSUME JournalFails \/ Finish \/ ExecutionCrash PROVE ExecutionInv'
  BY <1>7, <1>9 DEF JournalFails, Finish, ExecutionCrash
<1>10. CASE UNCHANGED <<schedulerVars, executionVars>>
  BY <1>2, <1>10 DEF executionVars
<1>. QED
  BY <1>1, <1>3, <1>4, <1>5, <1>6, <1>8, <1>9, <1>10 DEF SchedulerUse, ExecutionNext

-----------------------------------------------------------------------------
(* The theorems about the scheduler and the graph of an execution *)

LEMMA ExecutionInvariant == ExecutionSpec => []ExecutionInv
BY ExecutionInitInv, ExecutionStepInv, PTL DEF ExecutionSpec

\* No edge joins the experiment of one run to the evidence or the review of
\* another, whatever allocations fail.
THEOREM GraphIsRight == ExecutionSpec => []EdgesFollowRuns
<1>1. ExecutionInv => EdgesFollowRuns
  BY DEF ExecutionInv, Sound, EdgesFollowRuns
<1>. QED  BY <1>1, ExecutionInvariant, PTL

\* An execution, with its crashes and its scheduler made anew each time, keeps
\* what the scheduler promises: one holder, capped runs, exact cooldowns.
THEOREM ExecutionKeepsScheduler ==
    ExecutionSpec => [](SchedulerTypeOK /\ OneHolder /\ RunsCapped /\ CooldownExact)
<1>1. ExecutionInv => SchedulerTypeOK /\ OneHolder /\ RunsCapped /\ CooldownExact
  <2>1. ExecutionInv => SchedulerInv /\ SchedulerTypeOK
    BY DEF ExecutionInv, SchedulerInv
  <2>. QED  BY <2>1, OneHolderFollows, RunsCappedFollows, CooldownExactFollows
<1>. QED  BY <1>1, ExecutionInvariant, PTL

-----------------------------------------------------------------------------
(* The journal and the metrics of an execution *)

Line    == [execution : Nat, kind : {"started", "completed"}, run : Nat]
Metrics == [execution : Nat, executed : Nat]

\* Whether experiment l is run before experiment k.
Before(l, k) ==
    LET p == Discovered[l].priority
        q == Discovered[k].priority
    IN  p > q \/ (p = q /\ l < k)

\* While an execution runs, its tasks are its experiments: those that have been
\* handed out come before those that have not, and the held one is the last.
TasksAreExperiments ==
    /\ user = "execution" /\ at = "off" => tasks = <<>>
    /\ at # "off" =>
          /\ user = "execution"
          /\ \A k \in DOMAIN tasks :
                /\ tasks[k].priority = Discovered[k].priority /\ tasks[k].max_runs = 1
                /\ tasks[k].state \in {"pending", "running", "completed"}
                /\ tasks[k].state # "completed" =>
                      tasks[k].completed_runs = 0 /\ tasks[k].next_tick = 0
                /\ tasks[k].state = "running" <=> at \in {"run", "record"} /\ k = held
                /\ at = "adding" => tasks[k].state = "pending"
          /\ \A l, k \in DOMAIN tasks :
                l # k /\ tasks[l].state # "pending" /\ tasks[k].state # "completed" => Before(l, k)

\* The lines of the running execution are about tasks that were handed out.
LinesAreRuns ==
    /\ journal \in Seq(Line) /\ execution \in Nat
    /\ \A n \in DOMAIN journal : journal[n].execution \in 1 .. execution
    /\ at # "off" =>
          \A n \in DOMAIN journal : journal[n].execution = execution =>
             /\ journal[n].run \in DOMAIN tasks /\ tasks[journal[n].run].state # "pending"
             /\ at = "run" /\ journal[n].run = held => journal[n].kind = "started"

\* The metrics are those of an execution that is over.
MetricsArePast ==
    /\ metrics \in Metrics /\ metrics.execution <= execution /\ executed \in Nat
    /\ at # "off" => /\ metrics.execution < execution
                     /\ Cardinality(CompletedLines(execution)) <= executed

ExecutionJournalInv ==
    ExecutionInv /\ TasksAreExperiments /\ LinesAreRuns /\ MetricsArePast /\ JournalTells

\* A finite set and at most one element more.
LEMMA CountGrows ==
    ASSUME NEW S, IsFiniteSet(S), NEW e, NEW T \in {S, S \cup {e}}
    PROVE  /\ Cardinality(S) \in Nat /\ Cardinality(T) \in Nat
           /\ Cardinality(T) <= Cardinality(S) + 1
<1>1. Cardinality(S) \in Nat
  BY FS_CardinalityType
<1>2. CASE T = S
  BY <1>1, <1>2
<1>3. CASE T = S \cup {e}
  <2>1. Cardinality(S \cup {e}) = IF e \in S THEN Cardinality(S) ELSE Cardinality(S) + 1
    BY FS_AddElement
  <2>. QED  BY <1>1, <1>3, <2>1
<1>. QED  BY <1>2, <1>3

LEMMA CompletedFinite ==
    ASSUME LinesAreRuns, NEW x
    PROVE  IsFiniteSet(CompletedLines(x)) /\ Cardinality(CompletedLines(x)) \in Nat
<1>1. DOMAIN journal = 1 .. Len(journal) /\ Len(journal) \in Nat
  BY DEF LinesAreRuns
<1>2. IsFiniteSet(1 .. Len(journal))
  BY <1>1, FS_Interval
<1>3. IsFiniteSet(CompletedLines(x))
  BY <1>1, <1>2, FS_Subset DEF CompletedLines
<1>. QED  BY <1>3, FS_CardinalityType

\* An execution that is yet to write has no line.
LEMMA NoneCompleted ==
    ASSUME LinesAreRuns, NEW x, x \notin 1 .. execution
    PROVE  CompletedLines(x) = {} /\ Cardinality(CompletedLines(x)) = 0
<1>1. CompletedLines(x) = {}
  BY DEF CompletedLines, LinesAreRuns
<1>. QED  BY <1>1, FS_EmptySet

\* What one line does to the journal.
LEMMA LineWritten ==
    ASSUME journal \in Seq(Line), execution \in Nat, NEW kind \in {"started", "completed"},
           NEW run \in Nat, journal' \in Written(kind, run)
    PROVE  /\ journal' \in Seq(Line)
           /\ \A n \in DOMAIN journal' :
                 \/ n \in DOMAIN journal /\ journal'[n] = journal[n]
                 \/ /\ \A m \in DOMAIN journal : m < n
                    /\ journal'[n] = [execution |-> execution, kind |-> kind, run |-> run]
           /\ \A x : \/ CompletedLines(x)' = CompletedLines(x)
                     \/ /\ x = execution /\ kind = "completed"
                        /\ CompletedLines(x)' = CompletedLines(x) \cup {Len(journal) + 1}
<1>. DEFINE line == [execution |-> execution, kind |-> kind, run |-> run]
            n    == Len(journal) + 1
<1>1. line \in Line
  BY DEF Line
<1>2. CASE journal' = journal
  BY <1>2 DEF CompletedLines
<1>3. CASE journal' = Append(journal, line)
  <2>1. /\ journal' \in Seq(Line) /\ DOMAIN journal' = DOMAIN journal \cup {n}
        /\ \A m \in DOMAIN journal : journal'[m] = journal[m] /\ m < n
        /\ journal'[n] = line /\ n \notin DOMAIN journal
    <3>. HIDE DEF line
    <3>. QED  BY <1>1, <1>3
  <2>2. ASSUME NEW x
        PROVE  CompletedLines(x)' =
                  IF x = execution /\ kind = "completed" THEN CompletedLines(x) \cup {n}
                                                         ELSE CompletedLines(x)
    <3>. HIDE DEF n
    <3>. QED  BY <2>1 DEF CompletedLines
  <2>. QED  BY <2>1, <2>2
<1>. QED  BY <1>2, <1>3 DEF Written

\* The order of the journal does not change with what is not written.
LEMMA TellsUnchanged ==
    ASSUME JournalTells, UNCHANGED journal,
           Cardinality(CompletedLines(metrics'.execution)) <= metrics'.executed
    PROVE  JournalTells'
<1>1. \A x : CompletedLines(x)' = CompletedLines(x)
  BY DEF CompletedLines
<1>. QED  BY <1>1 DEF JournalTells, LineBefore

\* A line that all lines of its execution precede is told in order.
LEMMA TellsLine ==
    ASSUME LinesAreRuns, MetricsArePast, JournalTells, UNCHANGED metrics, at # "off",
           NEW kind \in {"started", "completed"}, NEW run \in Nat, journal' \in Written(kind, run),
           \A n \in DOMAIN journal : journal[n].execution = execution =>
              LineBefore(journal[n], [execution |-> execution, kind |-> kind, run |-> run])
    PROVE  JournalTells'
<1>. DEFINE line == [execution |-> execution, kind |-> kind, run |-> run]
<1>1. /\ \A n \in DOMAIN journal' :
            \/ n \in DOMAIN journal /\ journal'[n] = journal[n]
            \/ (\A m \in DOMAIN journal : m < n) /\ journal'[n] = line
      /\ DOMAIN journal \subseteq Nat /\ DOMAIN journal' \subseteq Nat
  BY LineWritten DEF LinesAreRuns
<1>2. CompletedLines(metrics.execution)' = CompletedLines(metrics.execution)
  <2>1. metrics.execution # execution
    BY DEF MetricsArePast, Metrics, LinesAreRuns
  <2>. QED  BY <2>1, LineWritten DEF LinesAreRuns
<1>3. ASSUME NEW a \in DOMAIN journal', NEW b \in DOMAIN journal',
             a < b, journal'[a].execution = journal'[b].execution
      PROVE  LineBefore(journal'[a], journal'[b])
  <2>. HIDE DEF line
  <2>1. CASE b \in DOMAIN journal /\ journal'[b] = journal[b]
    <3>1. a \in DOMAIN journal /\ journal'[a] = journal[a]
      BY <1>1, <1>3, <2>1
    <3>. QED  BY <1>3, <2>1, <3>1 DEF JournalTells
  <2>2. CASE (\A m \in DOMAIN journal : m < b) /\ journal'[b] = line
    <3>1. CASE a \in DOMAIN journal /\ journal'[a] = journal[a]
      BY <1>3, <2>2, <3>1 DEF line
    <3>2. CASE (\A m \in DOMAIN journal : m < a) /\ journal'[a] = line
      <4>1. a \notin DOMAIN journal /\ b \notin DOMAIN journal
        BY <1>1, <2>2, <3>2
      <4>2. a = Len(journal) + 1 /\ b = Len(journal) + 1
        BY <4>1, <1>1 DEF Written, LinesAreRuns, line
      <4>. QED  BY <1>3, <4>2 DEF LinesAreRuns
    <3>. QED  BY <1>1, <3>1, <3>2
  <2>. QED  BY <1>1, <2>1, <2>2
<1>. QED  BY <1>2, <1>3 DEF JournalTells, LineBefore

LEMMA JournalInitInv == ExecutionInit => ExecutionJournalInv
<1>. SUFFICES ASSUME ExecutionInit PROVE ExecutionJournalInv
  OBVIOUS
<1>1. ExecutionInv
  BY ExecutionInitInv
<1>2. /\ at = "off" /\ tasks = <<>> /\ journal = <<>> /\ execution = 0 /\ executed = 0
      /\ metrics = [execution |-> 0, executed |-> 0]
  BY DEF ExecutionInit, Empty, NoMetrics
<1>3. TasksAreExperiments /\ LinesAreRuns /\ MetricsArePast
  <2>1. <<>> \in Seq(Line)
    OBVIOUS
  <2>. QED  BY <1>2, <2>1 DEF TasksAreExperiments, LinesAreRuns, MetricsArePast, Metrics
<1>4. JournalTells
  <2>1. Cardinality(CompletedLines(0)) = 0
    BY <1>2, <1>3, NoneCompleted
  <2>. QED  BY <1>2, <2>1 DEF JournalTells
<1>. QED  BY <1>1, <1>3, <1>4 DEF ExecutionJournalInv

\* A call of the scheduler's other callers is no business of the journal.
LEMMA CallersJournal ==
    ASSUME ExecutionJournalInv, user = "callers", UNCHANGED executionVars
    PROVE  TasksAreExperiments' /\ LinesAreRuns' /\ MetricsArePast' /\ JournalTells'
<1>1. at = "off"
  BY DEF ExecutionJournalInv, TasksAreExperiments
<1>2. JournalTells'
  BY TellsUnchanged DEF ExecutionJournalInv, JournalTells, executionVars
<1>. QED
  BY <1>1, <1>2
  DEF ExecutionJournalInv, TasksAreExperiments, LinesAreRuns, MetricsArePast, executionVars

\* An execution that is over leaves its lines and the metrics of one that is.
LEMMA OverJournal ==
    ASSUME ExecutionJournalInv, Over, UNCHANGED <<user, journal, execution>>,
           metrics' \in Metrics, metrics'.execution <= execution,
           Cardinality(CompletedLines(metrics'.execution)) <= metrics'.executed
    PROVE  TasksAreExperiments' /\ LinesAreRuns' /\ MetricsArePast' /\ JournalTells'
<1>1. JournalTells'
  BY TellsUnchanged DEF ExecutionJournalInv
<1>. QED
  BY <1>1
  DEF ExecutionJournalInv, TasksAreExperiments, LinesAreRuns, MetricsArePast, Over, Destroyed

LEMMA BeginJournal ==
    ASSUME ExecutionJournalInv, user = "execution", Begin
    PROVE  TasksAreExperiments' /\ LinesAreRuns' /\ MetricsArePast' /\ JournalTells'
<1>1. /\ at = "off" /\ at' = "adding" /\ execution' = execution + 1 /\ tasks' = tasks /\ tasks = <<>>
      /\ UNCHANGED <<user, held, executed, journal, metrics>>
  BY DEF Begin, schedulerVars, ExecutionJournalInv, TasksAreExperiments
<1>2. TasksAreExperiments'
  BY <1>1 DEF ExecutionJournalInv, TasksAreExperiments
<1>3. LinesAreRuns'
  BY <1>1 DEF ExecutionJournalInv, LinesAreRuns
<1>4. MetricsArePast'
  <2>1. CompletedLines(execution)' = CompletedLines(execution')
    BY <1>1 DEF CompletedLines
  <2>2. execution' \notin 1 .. execution /\ LinesAreRuns
    BY <1>1 DEF ExecutionJournalInv, LinesAreRuns
  <2>3. Cardinality(CompletedLines(execution')) = 0
    BY <2>2, NoneCompleted
  <2>. QED
    BY <1>1, <2>1, <2>3 DEF ExecutionJournalInv, LinesAreRuns, MetricsArePast, Metrics
<1>5. JournalTells'
  BY <1>1, TellsUnchanged DEF ExecutionJournalInv, JournalTells
<1>. QED  BY <1>2, <1>3, <1>4, <1>5

LEMMA AddJournal ==
    ASSUME ExecutionJournalInv, AddExperiment
    PROVE  TasksAreExperiments' /\ LinesAreRuns' /\ MetricsArePast' /\ JournalTells'
<1>. DEFINE n == Len(tasks) + 1
            t == TaskOf(Discovered[n])
<1>1. /\ at = "adding" /\ tasks' = Append(tasks, t) /\ UNCHANGED executionVars
      /\ user = "execution" /\ tasks \in Seq(Task)
  BY DEF AddExperiment, Add, ExecutionJournalInv, ExecutionInv, SchedulerInv, SchedulerTypeOK,
         TasksAreExperiments
<1>2. n \in DOMAIN Discovered /\ t \in Task
  <2>1. n \in DOMAIN Discovered
    BY <1>1 DEF AddExperiment
  <2>. QED  BY <2>1, ExperimentTask
<1>3. /\ DOMAIN tasks' = DOMAIN tasks \cup {n} /\ n \notin DOMAIN tasks
      /\ tasks'[n] = t /\ \A k \in DOMAIN tasks : tasks'[k] = tasks[k]
  <2>. HIDE DEF t
  <2>. QED  BY <1>1, <1>2
<1>4. /\ t.priority = Discovered[n].priority /\ t.max_runs = 1 /\ t.state = "pending"
      /\ t.completed_runs = 0 /\ t.next_tick = 0
  BY DEF TaskOf
<1>. HIDE DEF n, t
<1>5. TasksAreExperiments'
  <2>1. \A k \in DOMAIN tasks' : tasks'[k].state = "pending"
    BY <1>1, <1>3, <1>4 DEF ExecutionJournalInv, TasksAreExperiments
  <2>2. \A k \in DOMAIN tasks' :
           /\ tasks'[k].priority = Discovered[k].priority /\ tasks'[k].max_runs = 1
           /\ tasks'[k].completed_runs = 0 /\ tasks'[k].next_tick = 0
    BY <1>1, <1>3, <1>4, <2>1 DEF ExecutionJournalInv, TasksAreExperiments
  <2>. QED  BY <1>1, <2>1, <2>2 DEF TasksAreExperiments, executionVars
<1>6. LinesAreRuns'
  BY <1>1, <1>3 DEF ExecutionJournalInv, LinesAreRuns, executionVars
<1>7. MetricsArePast' /\ JournalTells'
  <2>1. CompletedLines(execution)' = CompletedLines(execution)
    BY <1>1 DEF CompletedLines, executionVars
  <2>2. JournalTells'
    BY <1>1, TellsUnchanged DEF ExecutionJournalInv, JournalTells, executionVars
  <2>. QED  BY <1>1, <2>1, <2>2 DEF ExecutionJournalInv, MetricsArePast, executionVars
<1>. QED  BY <1>5, <1>6, <1>7

LEMMA OpenJournalTells ==
    ASSUME ExecutionJournalInv, OpenJournal
    PROVE  TasksAreExperiments' /\ LinesAreRuns' /\ MetricsArePast' /\ JournalTells'
<1>1. /\ at = "adding" /\ at' = "loop"
      /\ UNCHANGED <<tasks, user, held, executed, journal, metrics, execution>>
  BY DEF OpenJournal, schedulerVars
<1>2. CompletedLines(execution)' = CompletedLines(execution)
  BY <1>1 DEF CompletedLines
<1>3. JournalTells'
  BY <1>1, TellsUnchanged DEF ExecutionJournalInv, JournalTells
<1>. QED
  BY <1>1, <1>2, <1>3
  DEF ExecutionJournalInv, TasksAreExperiments, LinesAreRuns, MetricsArePast

\* The task that is selected comes after all that have been, before all others.
LEMMA StartJournal ==
    ASSUME ExecutionJournalInv, NEW k \in DOMAIN tasks, Start(k)
    PROVE  TasksAreExperiments' /\ LinesAreRuns' /\ MetricsArePast' /\ JournalTells'
<1>0. TasksAreExperiments /\ LinesAreRuns /\ MetricsArePast /\ JournalTells
  BY DEF ExecutionJournalInv
<1>1. /\ at = "loop" /\ at' = "run" /\ held' = k /\ Chosen(k)
      /\ tasks' = [tasks EXCEPT ![k].state = "running"]
      /\ journal' \in Written("started", k)
      /\ UNCHANGED <<user, executed, metrics, execution>>
  BY DEF Start, SelectTask
<1>2. tasks \in Seq(Task) /\ current_tick \in Unsigned /\ DOMAIN tasks \subseteq Nat
  BY DEF ExecutionJournalInv, ExecutionInv, SchedulerInv, SchedulerTypeOK
<1>3. /\ DOMAIN tasks' = DOMAIN tasks
      /\ \A n \in DOMAIN tasks : n # k => tasks'[n] = tasks[n]
      /\ tasks'[k].state = "running"
      /\ tasks'[k].priority = tasks[k].priority /\ tasks'[k].max_runs = tasks[k].max_runs
      /\ tasks'[k].completed_runs = tasks[k].completed_runs
      /\ tasks'[k].next_tick = tasks[k].next_tick
  <2>1. tasks[k] \in Task
    BY <1>2, Element
  <2>. QED  BY <1>1, <1>2, <2>1 DEF Task
<1>4. tasks[k].state = "pending"
  BY <1>1 DEF Chosen, IsEligible
<1>5. ASSUME NEW n \in DOMAIN tasks, n # k, tasks[n].state # "completed"
      PROVE  Before(k, n)
  <2>1. tasks[n].state = "pending" /\ tasks[n].max_runs = 1 /\ tasks[n].completed_runs = 0
        /\ tasks[n].next_tick = 0
    BY <1>0, <1>1, <1>5 DEF TasksAreExperiments
  <2>2. IsEligible(tasks[n])
    BY <1>2, <2>1, SchedulerAssumption DEF IsEligible, RunsLeft, Unsigned
  <2>3. tasks[k].priority > tasks[n].priority \/ (tasks[k].priority = tasks[n].priority /\ k < n)
    <3>1. \/ tasks[k].priority > tasks[n].priority
          \/ tasks[k].priority = tasks[n].priority /\ k <= n
      BY <1>1, <2>2, Zenon DEF Chosen
    <3>2. k \in Nat /\ n \in Nat
      BY <1>2
    <3>. QED  BY <1>5, <3>1, <3>2
  <2>. QED  BY <1>0, <1>1, <2>3 DEF TasksAreExperiments, Before
<1>6. TasksAreExperiments'
  <2>1. ASSUME NEW l \in DOMAIN tasks, NEW n \in DOMAIN tasks, l # n,
               tasks'[l].state # "pending", tasks'[n].state # "completed"
        PROVE  Before(l, n)
    <3>1. CASE l = k
      BY <1>3, <1>5, <2>1, <3>1
    <3>2. CASE l # k
      BY <1>0, <1>1, <1>3, <1>4, <2>1, <3>2 DEF TasksAreExperiments
    <3>. QED  BY <3>1, <3>2
  <2>2. \A l, n \in DOMAIN tasks : Before(l, n)' = Before(l, n)
    BY DEF Before
  <2>. QED  BY <1>0, <1>1, <1>3, <1>4, <2>1, <2>2 DEF TasksAreExperiments
<1>7. \A n \in DOMAIN journal : journal[n].execution = execution =>
         /\ journal[n].run \in DOMAIN tasks /\ journal[n].run # k
         /\ Before(journal[n].run, k)
  BY <1>0, <1>1, <1>4 DEF LinesAreRuns, TasksAreExperiments
<1>8. k \in Nat /\ journal \in Seq(Line) /\ execution \in Nat
  BY <1>0, <1>2 DEF LinesAreRuns
<1>9. LinesAreRuns'
  <2>1. \A n \in DOMAIN journal' :
           \/ n \in DOMAIN journal /\ journal'[n] = journal[n]
           \/ journal'[n] = [execution |-> execution, kind |-> "started", run |-> k]
    BY <1>1, <1>8, LineWritten
  <2>2. journal' \in Seq(Line) /\ execution \in Nat /\ execution > 0
    BY <1>0, <1>1, <1>8, LineWritten DEF MetricsArePast, Metrics
  <2>3. ASSUME NEW n \in DOMAIN journal'
        PROVE  /\ journal'[n].execution \in 1 .. execution
               /\ journal'[n].execution = execution =>
                     /\ journal'[n].run \in DOMAIN tasks /\ tasks'[journal'[n].run].state # "pending"
                     /\ journal'[n].run = k => journal'[n].kind = "started"
    <3>1. CASE n \in DOMAIN journal /\ journal'[n] = journal[n]
      BY <1>0, <1>1, <1>3, <1>7, <3>1 DEF LinesAreRuns
    <3>2. CASE journal'[n] = [execution |-> execution, kind |-> "started", run |-> k]
      BY <1>3, <2>2, <3>2
    <3>. QED  BY <2>1, <3>1, <3>2
  <2>. QED  BY <1>1, <1>3, <2>2, <2>3 DEF LinesAreRuns
<1>10. MetricsArePast'
  <2>1. CompletedLines(execution)' = CompletedLines(execution)
    BY <1>1, <1>8, LineWritten
  <2>. QED  BY <1>0, <1>1, <2>1 DEF MetricsArePast
<1>11. JournalTells'
  <2>1. \A n \in DOMAIN journal : journal[n].execution = execution =>
           LineBefore(journal[n], [execution |-> execution, kind |-> "started", run |-> k])
    BY <1>7 DEF Before, LineBefore
  <2>. QED  BY <1>0, <1>1, <1>8, <2>1, TellsLine
<1>. QED  BY <1>6, <1>9, <1>10, <1>11

LEMMA CompleteJournal ==
    ASSUME ExecutionJournalInv, Complete
    PROVE  TasksAreExperiments' /\ LinesAreRuns' /\ MetricsArePast' /\ JournalTells'
<1>0. TasksAreExperiments /\ LinesAreRuns /\ MetricsArePast /\ JournalTells
  BY DEF ExecutionJournalInv
<1>1. /\ at = "run" /\ at' = "record" /\ journal' \in Written("completed", held)
      /\ executed' = executed + 1 /\ UNCHANGED <<tasks, user, held, metrics, execution>>
  BY DEF Complete, schedulerVars
<1>2. held \in DOMAIN tasks /\ held \in Nat /\ journal \in Seq(Line) /\ execution \in Nat
  BY <1>0, <1>1 DEF ExecutionJournalInv, ExecutionInv, LinesAreRuns
<1>3. TasksAreExperiments'
  BY <1>0, <1>1 DEF TasksAreExperiments, Before
<1>4. /\ journal' \in Seq(Line)
      /\ \A n \in DOMAIN journal' :
            \/ n \in DOMAIN journal /\ journal'[n] = journal[n]
            \/ journal'[n] = [execution |-> execution, kind |-> "completed", run |-> held]
      /\ \/ CompletedLines(execution)' = CompletedLines(execution)
         \/ CompletedLines(execution)' = CompletedLines(execution) \cup {Len(journal) + 1}
  BY <1>1, <1>2, LineWritten
<1>5. LinesAreRuns'
  <2>1. execution > 0
    BY <1>0, <1>1 DEF MetricsArePast, Metrics, LinesAreRuns
  <2>2. tasks[held].state = "running"
    BY <1>0, <1>1, <1>2 DEF TasksAreExperiments
  <2>3. ASSUME NEW n \in DOMAIN journal'
        PROVE  /\ journal'[n].execution \in 1 .. execution
               /\ journal'[n].execution = execution =>
                     journal'[n].run \in DOMAIN tasks /\ tasks[journal'[n].run].state # "pending"
    <3>1. CASE n \in DOMAIN journal /\ journal'[n] = journal[n]
      BY <1>0, <1>1, <3>1 DEF LinesAreRuns
    <3>2. CASE journal'[n] = [execution |-> execution, kind |-> "completed", run |-> held]
      BY <1>2, <2>1, <2>2, <3>2
    <3>. QED  BY <1>4, <3>1, <3>2
  <2>. QED  BY <1>1, <1>2, <1>4, <2>3 DEF LinesAreRuns
<1>6. MetricsArePast'
  <2>1. Cardinality(CompletedLines(execution))' <= Cardinality(CompletedLines(execution)) + 1
    BY <1>0, <1>4, CompletedFinite, CountGrows
  <2>2. Cardinality(CompletedLines(execution)) \in Nat
    BY <1>0, CompletedFinite
  <2>3. Cardinality(CompletedLines(execution))' \in Nat
    BY <1>0, <1>4, CompletedFinite, CountGrows
  <2>. QED  BY <1>0, <1>1, <2>1, <2>2, <2>3 DEF MetricsArePast
<1>7. JournalTells'
  <2>1. ASSUME NEW n \in DOMAIN journal, journal[n].execution = execution
        PROVE  LineBefore(journal[n], [execution |-> execution, kind |-> "completed", run |-> held])
    <3>1. CASE journal[n].run = held
      BY <1>0, <1>1, <2>1, <3>1 DEF LinesAreRuns, LineBefore
    <3>2. CASE journal[n].run # held
      BY <1>0, <1>1, <1>2, <2>1, <3>2 DEF LinesAreRuns, TasksAreExperiments, Before, LineBefore
    <3>. QED  BY <3>1, <3>2
  <2>. QED  BY <1>0, <1>1, <1>2, <2>1, TellsLine
<1>. QED  BY <1>3, <1>5, <1>6, <1>7

LEMMA RecordJournal ==
    ASSUME ExecutionJournalInv, Record
    PROVE  TasksAreExperiments' /\ LinesAreRuns' /\ MetricsArePast' /\ JournalTells'
<1>0. TasksAreExperiments /\ LinesAreRuns /\ MetricsArePast /\ JournalTells
  BY DEF ExecutionJournalInv
<1>1. /\ at = "record" /\ at' = "loop" /\ held' = 0
      /\ tasks' = [tasks EXCEPT ![held] = Reported(tasks[held], 0)]
      /\ UNCHANGED <<user, executed, journal, metrics, execution>>
  BY DEF Record, MarkTaskCompleted
<1>2. held \in DOMAIN tasks /\ tasks \in Seq(Task)
  BY <1>1 DEF ExecutionJournalInv, ExecutionInv, SchedulerInv, SchedulerTypeOK
<1>3. tasks[held].completed_runs = 0 /\ tasks[held].max_runs = 1 /\ tasks[held].state = "running"
  BY <1>0, <1>1, <1>2 DEF TasksAreExperiments
<1>4. Reported(tasks[held], 0) = [tasks[held] EXCEPT !.completed_runs = 1, !.state = "completed"]
  <2>. DEFINE runs == tasks[held].completed_runs
  <2>1. runs \in Unsigned /\ 1 \in Nat /\ runs + 1 < Span
    BY <1>3 DEF Unsigned
  <2>2. tasks[held].max_runs # 0 /\ 1 >= tasks[held].max_runs
    BY <1>3
  <2>3. (runs + 1) % Span = 1
    <3>1. (runs + 1) % Span = runs + 1
      <4>. HIDE DEF runs
      <4>. QED  BY <2>1, SumWraps
    <3>. QED  BY <1>3, <3>1
  <2>. QED  BY <2>2, <2>3 DEF Reported
<1>5. /\ DOMAIN tasks' = DOMAIN tasks
      /\ \A n \in DOMAIN tasks : n # held => tasks'[n] = tasks[n]
      /\ tasks'[held].state = "completed"
      /\ tasks'[held].priority = tasks[held].priority /\ tasks'[held].max_runs = tasks[held].max_runs
  <2>1. tasks[held] \in Task
    BY <1>2, Element
  <2>2. tasks'[held] = [tasks[held] EXCEPT !.completed_runs = 1, !.state = "completed"]
    BY <1>1, <1>2, <1>4
  <2>. QED  BY <1>1, <1>2, <2>1, <2>2 DEF Task
<1>6. TasksAreExperiments'
  <2>1. ASSUME NEW l \in DOMAIN tasks, NEW n \in DOMAIN tasks, l # n,
               tasks'[l].state # "pending", tasks'[n].state # "completed"
        PROVE  Before(l, n)
    BY <1>0, <1>1, <1>3, <1>5, <2>1 DEF TasksAreExperiments
  <2>. QED  BY <1>0, <1>1, <1>5, <2>1 DEF TasksAreExperiments, Before
<1>7. LinesAreRuns'
  BY <1>0, <1>1, <1>5 DEF LinesAreRuns
<1>8. MetricsArePast' /\ JournalTells'
  <2>1. CompletedLines(execution)' = CompletedLines(execution)
    BY <1>1 DEF CompletedLines
  <2>2. JournalTells'
    BY <1>0, <1>1, TellsUnchanged DEF JournalTells
  <2>. QED  BY <1>0, <1>1, <2>1, <2>2 DEF MetricsArePast
<1>. QED  BY <1>6, <1>7, <1>8

LEMMA FinishJournal ==
    ASSUME ExecutionJournalInv, JournalFails \/ Finish \/ ExecutionCrash
    PROVE  TasksAreExperiments' /\ LinesAreRuns' /\ MetricsArePast' /\ JournalTells'
<1>0. LinesAreRuns /\ MetricsArePast /\ JournalTells
  BY DEF ExecutionJournalInv
<1>1. /\ Over /\ at # "off" /\ UNCHANGED <<user, journal, execution>>
      /\ metrics' \in {metrics, NoMetrics, [execution |-> execution, executed |-> executed]}
  BY DEF JournalFails, Finish, ExecutionCrash
<1>2. CASE metrics' = metrics
  BY <1>0, <1>1, <1>2, OverJournal DEF MetricsArePast, JournalTells
<1>3. CASE metrics' = NoMetrics
  <2>1. metrics'.execution = 0 /\ metrics'.executed = 0 /\ metrics' \in Metrics /\ 0 <= execution
    BY <1>0, <1>3 DEF NoMetrics, Metrics, LinesAreRuns
  <2>2. Cardinality(CompletedLines(0)) = 0
    BY <1>0, NoneCompleted
  <2>. QED  BY <1>1, <2>1, <2>2, OverJournal
<1>4. CASE metrics' = [execution |-> execution, executed |-> executed]
  <2>1. /\ metrics'.execution = execution /\ metrics'.executed = executed /\ metrics' \in Metrics
        /\ execution <= execution
    BY <1>0, <1>4 DEF Metrics, LinesAreRuns, MetricsArePast
  <2>. QED  BY <1>0, <1>1, <2>1, OverJournal DEF MetricsArePast
<1>. QED  BY <1>1, <1>2, <1>3, <1>4

LEMMA JournalStepInv ==
    ExecutionJournalInv /\ [SchedulerUse]_<<schedulerVars, executionVars>> => ExecutionJournalInv'
<1>. SUFFICES ASSUME ExecutionJournalInv, [SchedulerUse]_<<schedulerVars, executionVars>>
              PROVE  ExecutionJournalInv'
  OBVIOUS
<1>1. ExecutionInv'
  BY ExecutionStepInv DEF ExecutionJournalInv
<1>2. TasksAreExperiments' /\ LinesAreRuns' /\ MetricsArePast' /\ JournalTells'
  <2>1. CASE user = "callers" /\ SchedulerNext /\ UNCHANGED executionVars
    BY <2>1, CallersJournal
  <2>2. CASE user = "execution" /\ ExecutionNext
    BY <2>2, BeginJournal, AddJournal, OpenJournalTells, StartJournal, CompleteJournal,
       RecordJournal, FinishJournal
    DEF ExecutionNext
  <2>3. CASE UNCHANGED <<schedulerVars, executionVars>>
    <3>1. UNCHANGED <<tasks, user, at, held, executed, journal, metrics, execution>>
      BY <2>3 DEF schedulerVars, executionVars
    <3>2. CompletedLines(execution)' = CompletedLines(execution)
      BY <3>1 DEF CompletedLines
    <3>3. JournalTells'
      BY <3>1, TellsUnchanged DEF ExecutionJournalInv, JournalTells
    <3>. QED
      BY <3>1, <3>2, <3>3
      DEF ExecutionJournalInv, TasksAreExperiments, LinesAreRuns, MetricsArePast, Before
  <2>. QED  BY <2>1, <2>2, <2>3 DEF SchedulerUse
<1>. QED  BY <1>1, <1>2 DEF ExecutionJournalInv

\* The journal tells each execution in the order of priority, and no metrics
\* file counts fewer runs than the journal says its execution completed,
\* whatever lines are lost and wherever the process dies.
THEOREM JournalIsTrue == ExecutionSpec => []JournalTells
<1>1. ExecutionJournalInv => JournalTells
  BY DEF ExecutionJournalInv
<1>. QED  BY <1>1, JournalInitInv, JournalStepInv, PTL DEF ExecutionSpec
=============================================================================
