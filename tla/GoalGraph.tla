------------------------------ MODULE GoalGraph ------------------------------
(***************************************************************************)
(* The goal graph of Source/CognitiveV2/NxGoalGraph.c: goals with parents, *)
(* priorities and dependencies, in one text file that every operation      *)
(* reads, changes in memory and writes again.                              *)
(*                                                                         *)
(* The file is modelled by what Load makes of it.  Ids are positions: Add  *)
(* gives the next number and no operation removes a goal.  A call that     *)
(* returns an error before it writes changes nothing and is left out.      *)
(*                                                                         *)
(* Titles are written as they are, and a '|' or a line end in one is read  *)
(* back as the end of a field or of a line.  What is read back as a title  *)
(* holds neither, so only the goal that is added can have such a title.    *)
(* The objective is assumed to hold no line end.                           *)
(***************************************************************************)
EXTENDS Integers, Sequences, Functions

CONSTANTS
    MaxNodes,     \* NX_GOAL_GRAPH_MAX_NODES
    MaxDeps,      \* NX_GOAL_GRAPH_MAX_DEPS
    Radix,        \* base in which ids are written to the file
    Parents, Priorities, Titles, Dependencies, \* arguments of Add
    Targets,      \* statuses given to SetStatus
    WritesMayFail \* whether a write may be cut short, by a crash or a full disk

\* What the title of a new goal makes of its line in the file:
\*   "plain"    it reads back;
\*   "cut"      some text, then a '|' or a line end: the title ends there, and the
\*              dependencies that are read are the numbers between '|deps=' and a
\*              line end in the title, if any;
\*   "spoiled"  the same, with something else among these numbers, with too many of
\*              them or without the line end: nothing of the file is read;
\*   "leading"  it begins with a '|' or a line end: nothing of the file is read;
\*   "goal"     a line end and a line that is read as a goal of its own.
TitleKinds == {"plain", "cut", "spoiled", "leading", "goal"}
Statuses   == {"PENDING", "READY", "ACTIVE", "DONE", "BLOCKED"}
Ids        == Nat \ {0}

ASSUME GoalAssumption ==
    /\ MaxNodes \in Nat /\ MaxDeps \in Nat /\ Radix \in Nat
    /\ Parents \subseteq Nat /\ Priorities \subseteq Nat
    /\ Dependencies \subseteq Seq(Nat)
    /\ Targets \subseteq Statuses
    /\ WritesMayFail \in BOOLEAN

\* A kind and the numbers that can be read after '|deps='.
ASSUME TitleAssumption ==
    /\ Titles \subseteq [kind : TitleKinds, deps : Seq(Ids)]
    /\ \A t \in Titles : IF t.kind \in {"cut", "spoiled"} THEN Len(t.deps) <= MaxDeps
                                                         ELSE t.deps = <<>>

VARIABLES
    file,     \* "none", "unreadable" (Load fails), "foreign" (goals are read that
              \* nobody added: it is not followed further) or "graph"
    nodes,    \* the goals of a graph, as they are read
    \* history variables: the dependencies each goal was added with, the goals that
    \* were written with them and never lost one to a write that was cut short, the
    \* goals that were reopened and are not DONE since, and whether a title that was
    \* added brought dependencies of its own
    declared, intact, reopened, injected

goalVars == <<file, nodes, declared, intact, reopened, injected>>

Node == [parent : Nat, priority : Nat, status : Statuses, dependencies : Seq(Nat)]

GoalInit ==
    /\ file = "none" /\ nodes = <<>>
    /\ declared = <<>> /\ intact = {} /\ reopened = {} /\ injected = FALSE

Needs(ns, k) == Range(ns[k].dependencies)

\* nx_visit: no goal is reached from itself.
Acyclic(ns) ==
    \A S \in SUBSET DOMAIN ns : S # {} => {k \in S : Needs(ns, k) \cap S = {}} # {}

\* NxGoalGraph_Validate returns OK.
Validate(ns) ==
    /\ \A k \in DOMAIN ns :
          /\ ns[k].parent \in {0} \cup DOMAIN ns
          /\ Needs(ns, k) \subseteq DOMAIN ns \ {k}
    /\ Acyclic(ns)

Loads == file = "graph" /\ Validate(nodes)

\* The dependencies that the line of a goal reads back with: sscanf stops at the
\* first bar of the title.
DepsRead(title, deps) == IF title.kind = "plain" THEN deps ELSE title.deps

\* A number that begins as d does.
Shortened(d) == {p \in 1 .. d : \E digits \in 0 .. d : p = d \div Radix ^ digits}

\* What is left of a goal's dependencies when its line ends early.
CutDependencies(s) ==
    {<<>>} \cup UNION {{Append(SubSeq(s, 1, i - 1), p) : p \in Shortened(s[i])} : i \in DOMAIN s}

\* The whole graph is written; the last goal has that title, and `whole` are the
\* goals that are written with the dependencies they were added with.
Written(ns, title, whole) ==
    /\ file'  = CASE title.kind \in {"spoiled", "leading"} -> "unreadable"
                  [] title.kind = "goal" -> "foreign"
                  [] OTHER -> "graph"
    /\ nodes' = IF file' = "graph"
                THEN [ns EXCEPT ![Len(ns)].dependencies = DepsRead(title, @)] ELSE <<>>
    /\ intact' = whole \cap DOMAIN nodes'

\* The file ends early and cannot be read.
WriteLost ==
    WritesMayFail /\ file' = "unreadable" /\ nodes' = <<>> /\ intact' = {}

\* The file ends early and reads as a graph: the goals up to one, and that one
\* perhaps without all of its dependencies.
WriteCut(ns, title, whole) ==
    /\ WritesMayFail
    /\ \E k \in 0 .. Len(ns) :
          LET deps == IF k = 0 THEN <<>> ELSE IF k < Len(ns) THEN ns[k].dependencies
                      ELSE DepsRead(title, ns[k].dependencies)
          IN  /\ k = Len(ns) => title.kind # "leading"
              /\ \E cut \in CutDependencies(deps) :
                    /\ nodes' = [i \in 1 .. k |-> IF i < k THEN ns[i]
                                                  ELSE [ns[k] EXCEPT !.dependencies = cut]]
                    /\ intact' = {i \in whole : i < k \/ (i = k /\ deps = cut)}
    /\ file' = "graph"

\* nx_write_graph.
Write(ns, title, whole) == Written(ns, title, whole) \/ WriteLost \/ WriteCut(ns, title, whole)

\* Create does not ask whether there is a graph.
Create ==
    /\ file' = "graph" \/ (WritesMayFail /\ file' = "unreadable")
    /\ nodes' = <<>>
    /\ declared' = <<>> /\ intact' = {} /\ reopened' = {} /\ injected' = FALSE

Room_OffByOne == Len(nodes) <= MaxNodes
Room == Len(nodes) < MaxNodes

Accepted_Unchecked(ns) == TRUE
Accepted(ns) == Validate(ns)

Add(parent, title, priority, deps) ==
    LET new == Append(nodes, [parent |-> parent, priority |-> priority, status |-> "PENDING",
                              dependencies |-> deps])
    IN  /\ Loads
        /\ Room /\ Len(deps) <= MaxDeps
        /\ parent \in {0} \cup DOMAIN nodes
        /\ Accepted(new)
        /\ Write(new, title, IF title.kind = "plain" THEN intact \cup {Len(new)} ELSE intact)
        /\ declared' = SubSeq(Append(declared, deps), 1, Len(nodes'))
        /\ reopened' = reopened \cap DOMAIN nodes'
        /\ injected' = (injected \/ title.deps # <<>>)

AllDone_Any(k) == nodes[k].dependencies = <<>> \/ \E d \in Needs(nodes, k) : nodes[d].status = "DONE"
AllDone(k) == \A d \in Needs(nodes, k) : nodes[d].status = "DONE"

\* The last goal is written with a title that was read.
PlainTitle == [kind |-> "plain", deps |-> <<>>]

SetStatus(k, status) ==
    /\ Loads
    /\ status = "DONE" => AllDone(k)
    /\ Write([nodes EXCEPT ![k].status = status], PlainTitle, intact)
    /\ declared' = SubSeq(declared, 1, Len(nodes'))
    /\ reopened' = DOMAIN nodes' \cap
                     (IF status = "DONE" THEN reopened \ {k}
                      ELSE IF nodes[k].status = "DONE" THEN reopened \cup {k} ELSE reopened)
    /\ UNCHANGED injected

GoalNext ==
    \/ Create
    \/ \E p \in Parents, t \in Titles, n \in Priorities, d \in Dependencies : Add(p, t, n, d)
    \/ \E k \in DOMAIN nodes, s \in Targets : SetStatus(k, s)

GoalSpec == GoalInit /\ [][GoalNext]_goalVars

-----------------------------------------------------------------------------
(* NxGoalGraph_ListReady *)

IsReady_PendingOnly(k) == nodes[k].status = "PENDING" /\ AllDone(k)
IsReady(k) == nodes[k].status \in {"PENDING", "READY"} /\ AllDone(k)

Before(a, b) ==
    \/ nodes[a].priority > nodes[b].priority
    \/ nodes[a].priority = nodes[b].priority /\ a < b

Exchange_ByPriority(s, i, j) ==
    IF nodes[s[j]].priority > nodes[s[i]].priority THEN [s EXCEPT ![i] = s[j], ![j] = s[i]] ELSE s
\* The body of the sort: one comparison of two places.
Exchange(s, i, j) == IF Before(s[j], s[i]) THEN [s EXCEPT ![i] = s[j], ![j] = s[i]] ELSE s

\* The ready goals as they are found.
Found ==
    LET Upto[k \in 0 .. Len(nodes)] ==
          IF k = 0 THEN <<>>
          ELSE IF IsReady(k) THEN Append(Upto[k - 1], k) ELSE Upto[k - 1]
    IN  Upto[Len(nodes)]

\* The inner loop of the sort: place i is compared with every later one.
Settle(s, i) ==
    LET Upto[j \in 0 .. Len(s) - i] == IF j = 0 THEN s ELSE Exchange(Upto[j - 1], i, i + j)
    IN  Upto[Len(s) - i]

\* The outer loop.
Sorted(s) ==
    LET Upto[i \in 0 .. Len(s)] == IF i = 0 THEN s ELSE Settle(Upto[i - 1], i)
    IN  Upto[Len(s)]

Ready == Sorted(Found)

-----------------------------------------------------------------------------
(* Properties *)

\* Every variable keeps its range.
GoalTypeOK ==
    /\ file \in {"none", "unreadable", "foreign", "graph"}
    /\ nodes \in Seq(Node) /\ Len(nodes) <= MaxNodes
    /\ declared \in Seq(Seq(Nat))
    /\ Len(declared) = Len(nodes)
    /\ intact \subseteq DOMAIN nodes /\ reopened \subseteq DOMAIN nodes
    /\ injected \in BOOLEAN

\* PROJECT_STATE.md:80 "detección de ciclos": as long as no title brings its own
\* dependencies, a file that can be parsed passes Validate, wherever a write ended
\* early; so no operation leaves a graph that every later call rejects.  (A title
\* such as 'x|deps=9' with a line end does: Add checks the dependencies it was
\* given and writes others.)
GraphValid == file = "graph" /\ ~injected => Validate(nodes)

\* A plan never gets stuck: while goals are open and none is blocked or in work,
\* ListReady has one to offer.
SomethingReady ==
    /\ Loads
    /\ \A k \in DOMAIN nodes : nodes[k].status \in {"PENDING", "READY", "DONE"}
    /\ \E k \in DOMAIN nodes : nodes[k].status # "DONE"
    => \E k \in DOMAIN nodes : IsReady(k)

\* CHANGELOG.md:23 "bloqueo de transiciones inválidas": a goal is not done before
\* the goals it was declared to depend on, through every write and reload, unless
\* one of those was reopened.  Left out are a goal whose title does not read back,
\* see CannotSkipDependency, and one that lost dependencies to a write cut short.
DoneAfterDependencies ==
    \A k \in intact : nodes[k].status = "DONE" =>
       \A d \in Range(declared[k]) : nodes[d].status = "DONE" \/ d \in reopened

\* PROJECT_STATE.md:80 "selección determinista de tareas listas": the exchange
\* sort offers every ready goal once, the highest priority first and the lower
\* id first among equals.
ReadyInOrder ==
    Loads =>
       /\ Range(Ready) = {k \in DOMAIN nodes : IsReady(k)}
       /\ \A i, j \in DOMAIN Ready : i < j => Before(Ready[i], Ready[j])

\* NxGoalGraphTests.c:25 "cannot skip dependency", for every goal.
CannotSkipDependency ==
    \A k \in DOMAIN nodes : nodes[k].status = "DONE" =>
       \A d \in Range(declared[k]) : nodes[d].status = "DONE" \/ d \in reopened
=============================================================================
