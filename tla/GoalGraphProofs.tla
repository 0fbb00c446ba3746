--------------------------- MODULE GoalGraphProofs ---------------------------
(***************************************************************************)
(* Theorems about the goal graph, for any number of goals and dependencies *)
(* and any titles, priorities and statuses, with writes that fail and      *)
(* titles that do not read back.                                           *)
(***************************************************************************)
EXTENDS GoalGraph, WellFoundedInduction, TLAPS

USE GoalAssumption

-----------------------------------------------------------------------------
(* The inductive invariant *)

\* Parents and dependencies of a goal come before it.
Ordered(ns) ==
    \A k \in DOMAIN ns : ns[k].parent < k /\ Needs(ns, k) \subseteq 1 .. k - 1

\* The same of all goals but the last, whose title may have brought dependencies
\* of its own; no goal is added after it if these are wrong.
OrderedButLast(ns) ==
    \A k \in DOMAIN ns :
       ns[k].parent < k /\ (k < Len(ns) => Needs(ns, k) \subseteq 1 .. k - 1)

\* An intact goal has the dependencies it was added with, and they come before it.
KeepsDependencies ==
    \A k \in intact :
       nodes[k].dependencies = declared[k] /\ Range(declared[k]) \subseteq 1 .. k - 1

GoalInv ==
    /\ GoalTypeOK
    /\ OrderedButLast(nodes)
    /\ ~injected => Ordered(nodes)
    /\ KeepsDependencies
    /\ DoneAfterDependencies

-----------------------------------------------------------------------------
(* Lemmas about graphs *)

\* Any set of naturals with a member has a least one.
LEMMA LeastMember ==
    ASSUME NEW S, S \subseteq Nat, S # {}
    PROVE  \E k \in S : \A n \in S : k <= n
<1>1. PICK k \in S : \A n \in S : ~(<<n, k>> \in OpToRel(<, Nat))
  BY NatLessThanWellFounded, WFMin
<1>2. \A n \in S : ~(n < k)
  BY <1>1 DEF OpToRel
<1>. QED  BY <1>2

\* A sequence up to a place.
LEMMA FirstElements ==
    ASSUME NEW S, NEW s \in Seq(S), NEW m \in 0 .. Len(s)
    PROVE  /\ SubSeq(s, 1, m) \in Seq(S) /\ Len(SubSeq(s, 1, m)) = m
           /\ \A k \in 1 .. m : SubSeq(s, 1, m)[k] = s[k]
OBVIOUS

\* A sequence with one element replaced.
LEMMA ReplacedElement ==
    ASSUME NEW S, NEW s \in Seq(S), NEW i \in DOMAIN s, NEW e \in S
    PROVE  LET r == [s EXCEPT ![i] = e] IN
           /\ r \in Seq(S) /\ Len(r) = Len(s) /\ DOMAIN r = DOMAIN s
           /\ \A k \in DOMAIN s : r[k] = IF k = i THEN e ELSE s[k]
OBVIOUS

\* The fields of a goal.
LEMMA NodeType ==
    ASSUME NEW n \in Node
    PROVE  /\ n.parent \in Nat /\ n.priority \in Nat /\ n.status \in Statuses
           /\ n.dependencies \in Seq(Nat)
BY DEF Node

\* A graph whose goals depend on earlier ones only has no cycle and is valid.
LEMMA OrderedIsValid ==
    ASSUME NEW ns \in Seq(Node), Ordered(ns)
    PROVE  Validate(ns)
<1>1. DOMAIN ns = 1 .. Len(ns) /\ Len(ns) \in Nat
  OBVIOUS
<1>2. ASSUME NEW k \in DOMAIN ns
      PROVE  /\ ns[k].parent \in {0} \cup DOMAIN ns
             /\ Needs(ns, k) \subseteq DOMAIN ns \ {k}
  <2>1. ns[k] \in Node
    OBVIOUS
  <2>2. ns[k].parent \in Nat /\ ns[k].parent < k
    BY <2>1, NodeType DEF Ordered
  <2>3. Needs(ns, k) \subseteq 1 .. k - 1
    BY DEF Ordered
  <2>. QED  BY <1>1, <2>2, <2>3
<1>3. ASSUME NEW S \in SUBSET DOMAIN ns, S # {}
      PROVE  {k \in S : Needs(ns, k) \cap S = {}} # {}
  <2>1. PICK k \in S : \A n \in S : k <= n
    BY <1>1, <1>3, LeastMember
  <2>2. Needs(ns, k) \subseteq 1 .. k - 1
    BY DEF Ordered
  <2>. QED  BY <1>1, <2>1, <2>2
<1>. QED  BY <1>2, <1>3 DEF Validate, Acyclic

\* A graph that passes Validate is ordered to its last goal.
LEMMA ValidIsOrdered ==
    ASSUME NEW ns \in Seq(Node), OrderedButLast(ns), Validate(ns)
    PROVE  Ordered(ns)
<1>. SUFFICES ASSUME NEW k \in DOMAIN ns
              PROVE  ns[k].parent < k /\ Needs(ns, k) \subseteq 1 .. k - 1
  BY DEF Ordered
<1>1. DOMAIN ns = 1 .. Len(ns) /\ Len(ns) \in Nat /\ k \in 1 .. Len(ns)
  OBVIOUS
<1>2. CASE k < Len(ns)
  BY <1>2 DEF OrderedButLast
<1>3. CASE k = Len(ns)
  <2>1. Needs(ns, k) \subseteq DOMAIN ns \ {k}
    BY DEF Validate
  <2>. QED  BY <1>1, <1>3, <2>1 DEF OrderedButLast
<1>. QED  BY <1>1, <1>2, <1>3

\* What Add appends depends on earlier goals only, because Validate refuses a
\* goal that depends on itself.
LEMMA AppendOrdered ==
    ASSUME NEW ns \in Seq(Node), Ordered(ns), NEW n \in Node,
           n.parent \in {0} \cup DOMAIN ns,
           Validate(Append(ns, n))
    PROVE  Append(ns, n) \in Seq(Node) /\ Ordered(Append(ns, n))
<1>. DEFINE new == Append(ns, n)
<1>1. /\ new \in Seq(Node) /\ Len(new) = Len(ns) + 1 /\ Len(ns) \in Nat
      /\ DOMAIN ns = 1 .. Len(ns) /\ DOMAIN new = 1 .. Len(ns) + 1
      /\ new[Len(ns) + 1] = n /\ \A k \in 1 .. Len(ns) : new[k] = ns[k]
  OBVIOUS
<1>2. ASSUME NEW k \in 1 .. Len(ns)
      PROVE  new[k].parent < k /\ Needs(new, k) \subseteq 1 .. k - 1
  BY <1>1 DEF Ordered, Needs
<1>3. n.parent < Len(ns) + 1 /\ Needs(new, Len(ns) + 1) \subseteq 1 .. Len(ns)
  <2>1. Needs(new, Len(ns) + 1) \subseteq DOMAIN new \ {Len(ns) + 1}
    BY <1>1 DEF Validate
  <2>. QED  BY <1>1, <2>1
<1>4. ASSUME NEW k \in DOMAIN new
      PROVE  new[k].parent < k /\ Needs(new, k) \subseteq 1 .. k - 1
  <2>1. k \in 1 .. Len(ns) \/ k = Len(ns) + 1
    BY <1>1
  <2>. QED  BY <1>1, <1>2, <1>3, <2>1
<1>. HIDE DEF new
<1>5. Ordered(new)
  BY <1>4 DEF Ordered
<1>. QED  BY <1>1, <1>5 DEF new

\* What is left of dependencies is numbers.
LEMMA CutType ==
    ASSUME NEW s \in Seq(Nat), NEW cut \in CutDependencies(s)
    PROVE  cut \in Seq(Nat)
<1>1. CASE cut = <<>>
  BY <1>1
<1>2. CASE cut # <<>>
  <2>1. PICK i \in DOMAIN s : \E p \in Shortened(s[i]) : cut = Append(SubSeq(s, 1, i - 1), p)
    BY <1>2 DEF CutDependencies
  <2>2. PICK p \in Shortened(s[i]) : cut = Append(SubSeq(s, 1, i - 1), p)
    BY <2>1
  <2>3. i \in 1 .. Len(s) /\ Len(s) \in Nat /\ s[i] \in Nat
    OBVIOUS
  <2>4. p \in Nat
    BY <2>3 DEF Shortened
  <2>5. SubSeq(s, 1, i - 1) \in Seq(Nat)
    BY <2>3
  <2>. QED  BY <2>2, <2>4, <2>5
<1>. QED  BY <1>1, <1>2

\* What is left of dependencies names no larger number than they did.
LEMMA CutBelow ==
    ASSUME NEW s \in Seq(Nat), NEW m \in Nat, Range(s) \subseteq 1 .. m,
           NEW cut \in CutDependencies(s)
    PROVE  cut \in Seq(Nat) /\ Range(cut) \subseteq 1 .. m
<1>1. CASE cut = <<>>
  BY <1>1 DEF Range
<1>2. CASE cut # <<>>
  <2>1. PICK i \in DOMAIN s : \E p \in Shortened(s[i]) : cut = Append(SubSeq(s, 1, i - 1), p)
    BY <1>2 DEF CutDependencies
  <2>2. PICK p \in Shortened(s[i]) : cut = Append(SubSeq(s, 1, i - 1), p)
    BY <2>1
  <2>3. i \in 1 .. Len(s) /\ Len(s) \in Nat /\ s[i] \in Nat /\ s[i] \in 1 .. m
    BY DEF Range
  <2>4. p \in 1 .. m
    BY <2>3 DEF Shortened
  <2>5. /\ SubSeq(s, 1, i - 1) \in Seq(Nat) /\ Len(SubSeq(s, 1, i - 1)) = i - 1
        /\ \A j \in 1 .. i - 1 : SubSeq(s, 1, i - 1)[j] = s[j]
    BY <2>3
  <2>6. cut \in Seq(Nat) /\ DOMAIN cut = 1 .. i /\ cut[i] = p /\ \A j \in 1 .. i - 1 : cut[j] = s[j]
    BY <2>2, <2>3, <2>4, <2>5
  <2>7. \A j \in 1 .. i - 1 : s[j] \in 1 .. m
    BY <2>3 DEF Range
  <2>8. \A j \in DOMAIN cut : cut[j] \in 1 .. m
    <3>1. ASSUME NEW j \in DOMAIN cut  PROVE  j \in 1 .. i - 1 \/ j = i
      BY <2>3, <2>6
    <3>. QED  BY <2>4, <2>6, <2>7, <3>1
  <2>. QED  BY <2>6, <2>8 DEF Range
<1>. QED  BY <1>1, <1>2

-----------------------------------------------------------------------------
(* What a write leaves *)

\* The titles a graph is written with.
LEMMA TitleType ==
    ASSUME NEW title \in Titles \cup {PlainTitle}
    PROVE  title.kind \in TitleKinds /\ title.deps \in Seq(Nat)
<1>1. CASE title \in Titles
  <2>1. title.kind \in TitleKinds /\ title.deps \in Seq(Ids)
    BY <1>1, TitleAssumption
  <2>2. title.deps \in Seq(Nat)
    BY <2>1 DEF Ids
  <2>. QED  BY <2>1, <2>2
<1>2. CASE title = PlainTitle
  BY <1>2 DEF PlainTitle, TitleKinds
<1>. QED  BY <1>1, <1>2

\* Wherever the write of a graph ends, what reads back is a graph of its first
\* goals, ordered but for what a title brings, with their statuses; and a goal that
\* is still whole has the dependencies it was written with.
LEMMA WriteKeeps ==
    ASSUME NEW ns \in Seq(Node), Ordered(ns), NEW title \in Titles \cup {PlainTitle},
           NEW whole \in SUBSET DOMAIN ns, Len(ns) \in whole => title.kind = "plain",
           ns # <<>>, Write(ns, title, whole)
    PROVE  /\ file' \in {"unreadable", "foreign", "graph"}
           /\ nodes' \in Seq(Node) /\ Len(nodes') <= Len(ns)
           /\ OrderedButLast(nodes') /\ (title.deps = <<>> => Ordered(nodes'))
           /\ intact' \subseteq whole \cap DOMAIN nodes'
           /\ \A k \in DOMAIN nodes' : nodes'[k].status = ns[k].status
           /\ \A k \in intact' : nodes'[k].dependencies = ns[k].dependencies
<1>. DEFINE n == Len(ns)
            read == DepsRead(title, ns[n].dependencies)
<1>1. /\ DOMAIN ns = 1 .. n /\ n \in Nat \ {0}
      /\ \A k \in 1 .. n : /\ ns[k] \in Node /\ ns[k].dependencies \in Seq(Nat)
                            /\ ns[k].parent < k /\ Range(ns[k].dependencies) \subseteq 1 .. k - 1
  <2>1. DOMAIN ns = 1 .. n /\ n \in Nat \ {0} /\ \A k \in 1 .. n : ns[k] \in Node
    OBVIOUS
  <2>. QED  BY <2>1, NodeType DEF Ordered, Needs
<1>2. /\ read \in Seq(Nat)
      /\ title.deps = <<>> => Range(read) \subseteq 1 .. n - 1
      /\ n \in whole => read = ns[n].dependencies
  <2>1. read = IF title.kind = "plain" THEN ns[n].dependencies ELSE title.deps
    BY DEF DepsRead
  <2>. HIDE DEF read
  <2>2. CASE title.kind = "plain"
    <3>1. read = ns[n].dependencies
      BY <2>1, <2>2
    <3>. QED  BY <1>1, <3>1
  <2>3. CASE title.kind # "plain"
    <3>1. read = title.deps
      BY <2>1, <2>3
    <3>2. title.deps \in Seq(Nat)
      BY TitleType
    <3>3. n \notin whole
      BY <2>3
    <3>4. title.deps = <<>> => Range(read) = {}
      BY <3>1 DEF Range
    <3>. QED  BY <3>1, <3>2, <3>3, <3>4
  <2>. QED  BY <2>2, <2>3
<1>. HIDE DEF n, read
\* The goals up to k, the last of them with dependencies that may be new.
<1>3. ASSUME NEW k \in 1 .. n, NEW deps \in Seq(Nat),
             k < n \/ title.deps = <<>> => Range(deps) \subseteq 1 .. k - 1,
             nodes' = [i \in 1 .. k |-> IF i < k THEN ns[i] ELSE [ns[k] EXCEPT !.dependencies = deps]],
             intact' \subseteq whole \cap (1 .. k),
             k \in intact' => deps = ns[k].dependencies
      PROVE  /\ nodes' \in Seq(Node) /\ Len(nodes') <= Len(ns)
             /\ OrderedButLast(nodes') /\ (title.deps = <<>> => Ordered(nodes'))
             /\ intact' \subseteq whole \cap DOMAIN nodes'
             /\ \A i \in DOMAIN nodes' : nodes'[i].status = ns[i].status
             /\ \A i \in intact' : nodes'[i].dependencies = ns[i].dependencies
  <2>. DEFINE last == [ns[k] EXCEPT !.dependencies = deps]
  <2>1. /\ last \in Node /\ last.status = ns[k].status /\ last.parent = ns[k].parent
        /\ last.dependencies = deps
    BY <1>1, <1>3 DEF Node
  <2>2. nodes' = [i \in 1 .. k |-> IF i < k THEN ns[i] ELSE last]
    BY <1>3
  <2>. HIDE DEF last
  <2>3. k \in Nat /\ k <= n
    BY <1>1
  <2>4. /\ nodes' \in Seq(Node) /\ Len(nodes') = k /\ DOMAIN nodes' = 1 .. k
        /\ \A i \in 1 .. k : nodes'[i] = IF i < k THEN ns[i] ELSE last
    <3>1. \A i \in 1 .. k : (IF i < k THEN ns[i] ELSE last) \in Node
      BY <1>1, <2>1, <2>3
    <3>. QED  BY <2>2, <2>3, <3>1
  <2>5. ASSUME NEW i \in 1 .. k
        PROVE  /\ nodes'[i].status = ns[i].status /\ nodes'[i].parent < i
               /\ i < k \/ title.deps = <<>> => Needs(nodes', i) \subseteq 1 .. i - 1
               /\ i \in intact' => nodes'[i].dependencies = ns[i].dependencies
    <3>1. CASE i < k
      <4>1. nodes'[i] = ns[i] /\ i \in 1 .. n
        BY <1>1, <2>3, <2>4, <3>1
      <4>. QED  BY <1>1, <4>1 DEF Needs
    <3>2. CASE i = k
      <4>1. nodes'[i] = last /\ i \in 1 .. n
        BY <2>3, <2>4, <3>2
      <4>. QED  BY <1>1, <1>3, <2>1, <3>2, <4>1 DEF Needs
    <3>. QED  BY <2>3, <3>1, <3>2
  <2>6. OrderedButLast(nodes')
    BY <2>4, <2>5 DEF OrderedButLast
  <2>7. title.deps = <<>> => Ordered(nodes')
    BY <2>4, <2>5 DEF Ordered
  <2>. QED  BY <1>3, <2>3, <2>4, <2>5, <2>6, <2>7 DEF n
<1>4. ASSUME nodes' = <<>>, intact' \subseteq {}
      PROVE  /\ nodes' \in Seq(Node) /\ Len(nodes') <= Len(ns)
             /\ OrderedButLast(nodes') /\ Ordered(nodes')
             /\ intact' \subseteq whole \cap DOMAIN nodes'
             /\ \A i \in DOMAIN nodes' : nodes'[i].status = ns[i].status
             /\ \A i \in intact' : nodes'[i].dependencies = ns[i].dependencies
  BY <1>4 DEF Ordered, OrderedButLast
<1>5. CASE Written(ns, title, whole)
  <2>1. /\ file' \in {"unreadable", "foreign", "graph"}
        /\ nodes' = IF file' = "graph" THEN [ns EXCEPT ![n].dependencies = read] ELSE <<>>
        /\ intact' = whole \cap DOMAIN nodes'
    BY <1>5 DEF Written, n, read
  <2>2. CASE file' = "graph"
    <3>1. nodes' = [i \in 1 .. n |-> IF i < n THEN ns[i] ELSE [ns[n] EXCEPT !.dependencies = read]]
      <4>. DEFINE last == [ns[n] EXCEPT !.dependencies = read]
      <4>1. nodes' = [ns EXCEPT ![n] = last]
        BY <2>1, <2>2
      <4>. HIDE DEF last
      <4>2. nodes' = [i \in 1 .. n |-> IF i = n THEN last ELSE ns[i]]
        BY <1>1, <4>1
      <4>3. nodes' = [i \in 1 .. n |-> IF i < n THEN ns[i] ELSE last]
        BY <1>1, <4>2
      <4>. QED  BY <4>3 DEF last
    <3>2. intact' \subseteq whole \cap (1 .. n)
      BY <2>1, <3>1
    <3>3. n \in 1 .. n /\ ~(n < n)
      BY <1>1
    <3>. QED  BY <1>2, <1>3, <2>1, <3>1, <3>2, <3>3
  <2>3. CASE file' # "graph"
    BY <1>4, <2>1, <2>3
  <2>. QED  BY <2>2, <2>3
<1>6. CASE WriteLost
  BY <1>4, <1>6 DEF WriteLost
<1>7. CASE WriteCut(ns, title, whole)
  <2>. DEFINE old(k) == IF k = 0 THEN <<>> ELSE IF k < n THEN ns[k].dependencies ELSE read
  <2>1. PICK k \in 0 .. n : \E cut \in CutDependencies(old(k)) :
           /\ nodes' = [i \in 1 .. k |-> IF i < k THEN ns[i]
                                         ELSE [ns[k] EXCEPT !.dependencies = cut]]
           /\ intact' = {i \in whole : i < k \/ (i = k /\ old(k) = cut)}
    <3>1. PICK k \in 0 .. Len(ns) :
             LET deps == IF k = 0 THEN <<>> ELSE IF k < Len(ns) THEN ns[k].dependencies
                         ELSE DepsRead(title, ns[k].dependencies)
             IN  \E cut \in CutDependencies(deps) :
                    /\ nodes' = [i \in 1 .. k |-> IF i < k THEN ns[i]
                                                  ELSE [ns[k] EXCEPT !.dependencies = cut]]
                    /\ intact' = {i \in whole : i < k \/ (i = k /\ deps = cut)}
      BY <1>7 DEF WriteCut
    <3>2. k \in 0 .. n /\ (k = 0 \/ k < n \/ k = n)
      BY <1>1, <3>1 DEF n
    <3>3. old(k) = IF k = 0 THEN <<>> ELSE IF k < Len(ns) THEN ns[k].dependencies
                   ELSE DepsRead(title, ns[k].dependencies)
      BY <1>1, <3>2 DEF n, read
    <3>. HIDE DEF old
    <3>. QED  BY <3>1, <3>2, <3>3
  <2>2. PICK cut \in CutDependencies(old(k)) :
           /\ nodes' = [i \in 1 .. k |-> IF i < k THEN ns[i]
                                         ELSE [ns[k] EXCEPT !.dependencies = cut]]
           /\ intact' = {i \in whole : i < k \/ (i = k /\ old(k) = cut)}
    BY <2>1
  <2>3. file' = "graph"
    BY <1>7 DEF WriteCut
  <2>4. CASE k = 0
    <3>1. nodes' = <<>>
      BY <2>2, <2>4
    <3>2. intact' \subseteq {}
      BY <1>1, <2>2, <2>4
    <3>. QED  BY <1>4, <2>3, <3>1, <3>2
  <2>5. CASE k # 0
    <3>0. k \in 1 .. n /\ k \in Nat /\ k - 1 \in Nat
      BY <1>1, <2>5
    <3>1. old(k) \in Seq(Nat)
      BY <1>1, <1>2, <3>0
    <3>2. k < n \/ title.deps = <<>> => Range(old(k)) \subseteq 1 .. k - 1
      <4>1. CASE k < n
        <5>1. old(k) = ns[k].dependencies
          BY <2>5, <4>1
        <5>. HIDE DEF old
        <5>. QED  BY <1>1, <3>0, <5>1
      <4>2. CASE ~(k < n)
        <5>1. k = n /\ old(k) = read
          BY <1>1, <2>5, <3>0, <4>2
        <5>. HIDE DEF old
        <5>. QED  BY <1>1, <1>2, <5>1
      <4>. QED  BY <4>1, <4>2
    <3>3. k \in whole => old(k) = ns[k].dependencies
      BY <1>1, <1>2, <3>0
    <3>. HIDE DEF old
    <3>4. cut \in Seq(Nat)
      BY <3>1, CutType
    <3>5. k < n \/ title.deps = <<>> => Range(cut) \subseteq 1 .. k - 1
      BY <3>0, <3>1, <3>2, CutBelow
    <3>6. intact' \subseteq whole \cap (1 .. k)
      BY <1>1, <2>2, <3>0
    <3>7. k \in intact' => cut = ns[k].dependencies
      BY <2>2, <3>0, <3>3
    <3>. QED  BY <1>3, <2>2, <2>3, <3>0, <3>4, <3>5, <3>6, <3>7
  <2>. QED  BY <2>4, <2>5
<1>. QED  BY <1>5, <1>6, <1>7 DEF Write

-----------------------------------------------------------------------------
(* Each operation preserves the invariant *)

\* What the invariant says of an intact goal.
LEMMA IntactGoal ==
    ASSUME GoalInv, NEW k \in intact
    PROVE  /\ k \in DOMAIN nodes /\ nodes[k].dependencies = declared[k]
           /\ Range(declared[k]) \subseteq 1 .. k - 1
           /\ Needs(nodes, k) = Range(declared[k])
BY DEF GoalInv, GoalTypeOK, KeepsDependencies, Needs

LEMMA GoalInitInv == GoalInit => GoalInv
<1>. SUFFICES ASSUME GoalInit  PROVE GoalInv
  OBVIOUS
<1>1. DOMAIN nodes = {} /\ Len(nodes) = 0 /\ Len(declared) = 0
  BY DEF GoalInit
<1>2. GoalTypeOK
  <2>1. nodes \in Seq(Node) /\ declared \in Seq(Seq(Nat))
    BY DEF GoalInit
  <2>2. intact = {} /\ reopened = {} /\ injected \in BOOLEAN
    BY DEF GoalInit
  <2>3. file \in {"none", "unreadable", "foreign", "graph"}
    BY DEF GoalInit
  <2>. QED  BY <1>1, <2>1, <2>2, <2>3 DEF GoalTypeOK
<1>3. OrderedButLast(nodes) /\ Ordered(nodes)
  BY <1>1 DEF OrderedButLast, Ordered
<1>4. KeepsDependencies /\ DoneAfterDependencies
  BY DEF GoalInit, KeepsDependencies, DoneAfterDependencies
<1>. QED  BY <1>2, <1>3, <1>4 DEF GoalInv

LEMMA CreateKeepsInv ==
    ASSUME Create
    PROVE  GoalInv'
<1>1. DOMAIN nodes' = {} /\ Len(nodes') = 0 /\ Len(declared') = 0
  BY DEF Create
<1>2. file' \in {"none", "unreadable", "foreign", "graph"}
  BY DEF Create
<1>3. GoalTypeOK'
  <2>1. nodes' \in Seq(Node) /\ declared' \in Seq(Seq(Nat))
    BY DEF Create
  <2>2. intact' = {} /\ reopened' = {} /\ injected' \in BOOLEAN
    BY DEF Create
  <2>3. file' \in {"none", "unreadable", "foreign", "graph"}
    BY <1>2 DEF Create
  <2>. QED  BY <1>1, <2>1, <2>2, <2>3 DEF GoalTypeOK
<1>4. OrderedButLast(nodes') /\ Ordered(nodes')
  BY <1>1 DEF OrderedButLast, Ordered
<1>5. KeepsDependencies' /\ DoneAfterDependencies'
  BY DEF Create, KeepsDependencies, DoneAfterDependencies
<1>. QED  BY <1>3, <1>4, <1>5 DEF GoalInv

LEMMA AddKeepsInv ==
    ASSUME GoalInv, NEW p \in Parents, NEW t \in Titles, NEW n \in Priorities,
           NEW deps \in Dependencies, Add(p, t, n, deps)
    PROVE  GoalInv'
<1>. DEFINE goal  == [parent |-> p, priority |-> n, status |-> "PENDING", dependencies |-> deps]
            new   == Append(nodes, goal)
            whole == IF t.kind = "plain" THEN intact \cup {Len(new)} ELSE intact
<1>1. /\ nodes \in Seq(Node) /\ intact \subseteq DOMAIN nodes /\ reopened \subseteq DOMAIN nodes
      /\ declared \in Seq(Seq(Nat)) /\ injected \in BOOLEAN
      /\ Len(declared) = Len(nodes) /\ Len(nodes) \in Nat /\ DOMAIN nodes = 1 .. Len(nodes)
      /\ DOMAIN declared = 1 .. Len(nodes)
  BY DEF GoalInv, GoalTypeOK
<1>2. /\ Room /\ p \in {0} \cup DOMAIN nodes
      /\ Validate(nodes) /\ Validate(new) /\ Write(new, t, whole)
      /\ declared' = SubSeq(Append(declared, deps), 1, Len(nodes'))
      /\ reopened' = reopened \cap DOMAIN nodes'
      /\ injected' = (injected \/ t.deps # <<>>)
  BY DEF Add, Accepted, Loads
<1>3. goal \in Node /\ goal.parent = p /\ goal.status = "PENDING" /\ goal.dependencies = deps
  BY DEF Node, Statuses
<1>. HIDE DEF goal
<1>4. Ordered(nodes)
  BY <1>1, <1>2, ValidIsOrdered DEF GoalInv
<1>5. new \in Seq(Node) /\ Ordered(new)
  BY <1>1, <1>2, <1>3, <1>4, AppendOrdered
<1>6. /\ Len(new) = Len(nodes) + 1 /\ new[Len(nodes) + 1] = goal /\ new # <<>>
      /\ DOMAIN new = 1 .. Len(nodes) + 1
      /\ \A k \in 1 .. Len(nodes) : new[k] = nodes[k]
  <2>1. goal \in Node
    BY <1>3
  <2>2. /\ Len(new) = Len(nodes) + 1 /\ new[Len(nodes) + 1] = goal
        /\ DOMAIN new = 1 .. Len(nodes) + 1
        /\ \A k \in 1 .. Len(nodes) : new[k] = nodes[k]
    BY <1>1, <2>1
  <2>3. new # <<>>
    <3>. HIDE DEF new
    <3>. QED  BY <1>1, <2>2
  <2>. QED  BY <2>2, <2>3
<1>. HIDE DEF new
<1>7. /\ whole \in SUBSET DOMAIN new /\ (Len(new) \in whole => t.kind = "plain")
      /\ \A k \in whole : k \in intact \/ (k = Len(nodes) + 1 /\ t.kind = "plain")
  <2>1. Len(new) \notin intact /\ intact \subseteq DOMAIN new
    BY <1>1, <1>6
  <2>. QED  BY <1>1, <1>6, <2>1
<1>. HIDE DEF whole
<1>8. /\ file' \in {"unreadable", "foreign", "graph"}
      /\ nodes' \in Seq(Node) /\ Len(nodes') <= Len(new)
      /\ OrderedButLast(nodes') /\ (t.deps = <<>> => Ordered(nodes'))
      /\ intact' \subseteq whole \cap DOMAIN nodes'
      /\ \A k \in DOMAIN nodes' : nodes'[k].status = new[k].status
      /\ \A k \in intact' : nodes'[k].dependencies = new[k].dependencies
  BY <1>2, <1>5, <1>6, <1>7, WriteKeeps
<1>9. /\ Len(nodes') \in 0 .. Len(nodes) + 1 /\ DOMAIN nodes' = 1 .. Len(nodes')
      /\ Len(nodes') <= MaxNodes
  BY <1>1, <1>2, <1>6, <1>8 DEF Room
<1>10. /\ declared' \in Seq(Seq(Nat)) /\ Len(declared') = Len(nodes')
       /\ \A k \in DOMAIN nodes' : declared'[k] = IF k <= Len(nodes) THEN declared[k] ELSE deps
  <2>. DEFINE full == Append(declared, deps)
  <2>1. /\ full \in Seq(Seq(Nat)) /\ Len(full) = Len(nodes) + 1
        /\ \A k \in 1 .. Len(nodes) : full[k] = declared[k]
        /\ full[Len(nodes) + 1] = deps
    BY <1>1
  <2>. HIDE DEF full
  <2>2. declared' = SubSeq(full, 1, Len(nodes'))
    BY <1>2 DEF full
  <2>3. /\ declared' \in Seq(Seq(Nat)) /\ Len(declared') = Len(nodes')
        /\ \A k \in 1 .. Len(nodes') : declared'[k] = full[k]
    BY <1>9, <2>1, <2>2, FirstElements
  <2>4. ASSUME NEW k \in DOMAIN nodes'
        PROVE  declared'[k] = IF k <= Len(nodes) THEN declared[k] ELSE deps
    <3>1. k \in 1 .. Len(nodes) \/ k = Len(nodes) + 1
      <4>1. k \in 1 .. Len(nodes') /\ Len(nodes') \in 0 .. Len(nodes) + 1 /\ Len(nodes) \in Nat
        BY <1>1, <1>9
      <4>. QED  BY <4>1
    <3>2. CASE k \in 1 .. Len(nodes)
      <4>1. declared'[k] = full[k] /\ full[k] = declared[k]
        BY <1>9, <2>1, <2>3, <3>2
      <4>. QED  BY <1>1, <3>2, <4>1
    <3>3. CASE k = Len(nodes) + 1
      <4>1. declared'[k] = full[k] /\ ~(k <= Len(nodes))
        BY <1>1, <1>9, <2>3, <3>3
      <4>. QED  BY <2>1, <3>3, <4>1
    <3>. QED  BY <3>1, <3>2, <3>3
  <2>. QED  BY <2>3, <2>4
<1>11. GoalTypeOK'
  BY <1>2, <1>8, <1>9, <1>10, <1>1 DEF GoalTypeOK
<1>12. ~injected' => Ordered(nodes')
  BY <1>2, <1>8
<1>13. ASSUME NEW k \in intact'
       PROVE  /\ k \in DOMAIN nodes'
              /\ nodes'[k].dependencies = declared'[k] /\ Range(declared'[k]) \subseteq 1 .. k - 1
  <2>1. k \in DOMAIN nodes' /\ k \in DOMAIN new /\ nodes'[k].dependencies = new[k].dependencies
    BY <1>7, <1>8
  <2>2. Range(new[k].dependencies) \subseteq 1 .. k - 1
    BY <1>5, <2>1 DEF Ordered, Needs
  <2>3. new[k].dependencies = declared'[k]
    <3>1. CASE k \in intact
      <4>1. k \in 1 .. Len(nodes) /\ nodes[k].dependencies = declared[k]
        BY <1>1, <3>1, IntactGoal
      <4>. QED  BY <1>1, <1>6, <1>10, <2>1, <4>1
    <3>2. CASE k = Len(nodes) + 1
      <4>1. new[k] = goal /\ ~(k <= Len(nodes))
        BY <1>1, <1>6, <3>2
      <4>2. new[k].dependencies = deps
        BY <1>3, <4>1
      <4>3. declared'[k] = deps
        BY <1>10, <2>1, <4>1
      <4>. QED  BY <4>2, <4>3
    <3>. QED  BY <1>7, <1>8, <3>1, <3>2
  <2>. QED  BY <2>1, <2>2, <2>3
<1>14. ASSUME NEW k \in intact', nodes'[k].status = "DONE", NEW d \in Range(declared'[k])
       PROVE  nodes'[d].status = "DONE" \/ d \in reopened'
  <2>1. k \in DOMAIN nodes' /\ d \in 1 .. k - 1 /\ new[k].status = "DONE"
    BY <1>8, <1>13, <1>14
  <2>2. k # Len(nodes) + 1
    BY <1>3, <1>6, <2>1
  <2>3. k \in intact /\ k \in 1 .. Len(nodes)
    BY <1>1, <1>7, <1>8, <2>2
  <2>4. nodes[k].status = "DONE" /\ declared'[k] = declared[k]
    <3>1. k <= Len(nodes)
      BY <1>1, <2>3
    <3>2. new[k] = nodes[k]
      BY <1>6, <2>3
    <3>3. declared'[k] = declared[k]
      BY <1>10, <2>1, <3>1
    <3>. QED  BY <2>1, <3>2, <3>3
  <2>5. nodes[d].status = "DONE" \/ d \in reopened
    BY <1>14, <2>3, <2>4 DEF GoalInv, DoneAfterDependencies
  <2>6. d \in DOMAIN nodes' /\ d \in 1 .. Len(nodes)
    BY <1>1, <1>9, <2>1, <2>3
  <2>7. nodes'[d].status = nodes[d].status
    BY <1>6, <1>8, <2>6
  <2>. QED  BY <1>2, <2>5, <2>6, <2>7
<1>. QED
  BY <1>8, <1>11, <1>12, <1>13, <1>14
     DEF GoalInv, KeepsDependencies, DoneAfterDependencies

LEMMA SetStatusKeepsInv ==
    ASSUME GoalInv, NEW g \in DOMAIN nodes, NEW s \in Targets, SetStatus(g, s)
    PROVE  GoalInv'
<1>. DEFINE new == [nodes EXCEPT ![g].status = s]
<1>1. /\ nodes \in Seq(Node) /\ intact \subseteq DOMAIN nodes /\ reopened \subseteq DOMAIN nodes
      /\ declared \in Seq(Seq(Nat)) /\ injected \in BOOLEAN
      /\ Len(declared) = Len(nodes) /\ Len(nodes) \in Nat /\ DOMAIN nodes = 1 .. Len(nodes)
      /\ DOMAIN declared = 1 .. Len(nodes) /\ Len(nodes) <= MaxNodes
  BY DEF GoalInv, GoalTypeOK
<1>2. /\ s = "DONE" => AllDone(g)
      /\ Validate(nodes) /\ Write(new, PlainTitle, intact)
      /\ declared' = SubSeq(declared, 1, Len(nodes'))
      /\ reopened' = DOMAIN nodes' \cap
                       (IF s = "DONE" THEN reopened \ {g}
                        ELSE IF nodes[g].status = "DONE" THEN reopened \cup {g} ELSE reopened)
      /\ injected' = injected
  BY DEF SetStatus, Loads
<1>3. /\ new \in Seq(Node) /\ Len(new) = Len(nodes) /\ DOMAIN new = DOMAIN nodes /\ new # <<>>
      /\ \A k \in DOMAIN nodes :
            /\ new[k].parent = nodes[k].parent /\ new[k].dependencies = nodes[k].dependencies
            /\ new[k].status = IF k = g THEN s ELSE nodes[k].status
  <2>. DEFINE goal == [nodes[g] EXCEPT !.status = s]
  <2>1. nodes[g] \in Node
    BY <1>1
  <2>2. /\ goal \in Node /\ goal.parent = nodes[g].parent
        /\ goal.dependencies = nodes[g].dependencies /\ goal.status = s
    BY <2>1 DEF Node
  <2>. HIDE DEF goal
  <2>3. new = [nodes EXCEPT ![g] = goal]
    BY DEF goal
  <2>4. /\ new \in Seq(Node) /\ Len(new) = Len(nodes) /\ DOMAIN new = DOMAIN nodes
        /\ \A k \in DOMAIN nodes : new[k] = IF k = g THEN goal ELSE nodes[k]
    <3>. HIDE DEF new
    <3>. QED  BY <1>1, <2>2, <2>3, ReplacedElement
  <2>5. new # <<>>
    <3>. HIDE DEF new
    <3>. QED  BY <1>1, <2>4
  <2>. QED  BY <2>2, <2>4, <2>5
<1>. HIDE DEF new
<1>4. Ordered(new)
  <2>1. Ordered(nodes)
    BY <1>1, <1>2, ValidIsOrdered DEF GoalInv
  <2>. QED  BY <1>1, <1>3, <2>1 DEF Ordered, Needs
<1>5. /\ file' \in {"unreadable", "foreign", "graph"}
      /\ nodes' \in Seq(Node) /\ Len(nodes') <= Len(new)
      /\ OrderedButLast(nodes') /\ Ordered(nodes')
      /\ intact' \subseteq intact \cap DOMAIN nodes'
      /\ \A k \in DOMAIN nodes' : nodes'[k].status = new[k].status
      /\ \A k \in intact' : nodes'[k].dependencies = new[k].dependencies
  <2>1. /\ intact \in SUBSET DOMAIN new
        /\ PlainTitle \in Titles \cup {PlainTitle}
    BY <1>1, <1>3
  <2>2. PlainTitle.kind = "plain" /\ PlainTitle.deps = <<>>
    BY DEF PlainTitle
  <2>. QED  BY <1>2, <1>3, <1>4, <2>1, <2>2, WriteKeeps
<1>6. /\ Len(nodes') \in 0 .. Len(nodes) /\ DOMAIN nodes' = 1 .. Len(nodes')
      /\ DOMAIN nodes' \subseteq DOMAIN nodes /\ Len(nodes') <= MaxNodes
  BY <1>1, <1>3, <1>5
<1>7. /\ declared' \in Seq(Seq(Nat)) /\ Len(declared') = Len(nodes')
      /\ \A k \in DOMAIN nodes' : declared'[k] = declared[k]
  <2>1. Len(nodes') \in 0 .. Len(declared)
    BY <1>1, <1>6
  <2>2. /\ declared' \in Seq(Seq(Nat)) /\ Len(declared') = Len(nodes')
        /\ \A k \in 1 .. Len(nodes') : declared'[k] = declared[k]
    BY <1>1, <1>2, <2>1, FirstElements
  <2>. QED  BY <1>6, <2>2
<1>8. GoalTypeOK'
  BY <1>1, <1>2, <1>5, <1>6, <1>7 DEF GoalTypeOK
<1>9. ASSUME NEW k \in intact'
      PROVE  /\ k \in DOMAIN nodes' /\ k \in DOMAIN nodes /\ k \in intact
             /\ declared'[k] = declared[k]
             /\ nodes'[k].dependencies = declared[k] /\ Range(declared[k]) \subseteq 1 .. k - 1
             /\ Needs(nodes, k) = Range(declared[k])
  <2>1. k \in DOMAIN nodes' /\ k \in intact
    BY <1>5
  <2>2. /\ k \in DOMAIN nodes /\ nodes[k].dependencies = declared[k]
        /\ Range(declared[k]) \subseteq 1 .. k - 1 /\ Needs(nodes, k) = Range(declared[k])
    BY <2>1, IntactGoal
  <2>. QED  BY <1>3, <1>5, <1>7, <2>1, <2>2
<1>10. ASSUME NEW k \in intact', nodes'[k].status = "DONE", NEW d \in Range(declared'[k])
       PROVE  nodes'[d].status = "DONE" \/ d \in reopened'
  <2>1. /\ k \in DOMAIN nodes' /\ k \in DOMAIN nodes /\ k \in intact
        /\ d \in Range(declared[k]) /\ d \in Needs(nodes, k) /\ d \in 1 .. k - 1
    BY <1>9, <1>10
  <2>2. d \in DOMAIN nodes' /\ d \in DOMAIN nodes /\ d # k
    BY <1>1, <1>6, <2>1
  <2>3. nodes'[d].status = IF d = g THEN s ELSE nodes[d].status
    BY <1>3, <1>5, <2>2
  <2>4. CASE k = g
    <3>1. s = "DONE"
      BY <1>3, <1>5, <1>10, <2>1, <2>4
    <3>2. nodes[d].status = "DONE"
      BY <1>2, <2>1, <2>4, <3>1 DEF AllDone
    <3>. QED  BY <2>2, <2>3, <2>4, <3>2
  <2>5. CASE k # g
    <3>1. nodes[k].status = "DONE"
      BY <1>3, <1>5, <1>10, <2>1, <2>5
    <3>2. nodes[d].status = "DONE" \/ d \in reopened
      BY <2>1, <3>1 DEF GoalInv, DoneAfterDependencies
    <3>. QED  BY <1>2, <2>2, <2>3, <3>2
  <2>. QED  BY <2>4, <2>5
<1>. QED
  BY <1>5, <1>8, <1>9, <1>10
     DEF GoalInv, KeepsDependencies, DoneAfterDependencies

\* The invariant holds initially and no step breaks it.
THEOREM GoalInvariant == GoalSpec => []GoalInv
<1>1. ASSUME GoalInv, [GoalNext]_goalVars
      PROVE  GoalInv'
  <2>1. CASE Create
    BY <2>1, CreateKeepsInv
  <2>2. CASE \E p \in Parents, t \in Titles, n \in Priorities, d \in Dependencies : Add(p, t, n, d)
    BY <1>1, <2>2, AddKeepsInv
  <2>3. CASE \E k \in DOMAIN nodes, s \in Targets : SetStatus(k, s)
    BY <1>1, <2>3, SetStatusKeepsInv
  <2>4. CASE UNCHANGED goalVars
    BY <1>1, <2>4
       DEF goalVars, GoalInv, GoalTypeOK, Ordered, OrderedButLast, KeepsDependencies,
           DoneAfterDependencies, Needs
  <2>. QED  BY <1>1, <2>1, <2>2, <2>3, <2>4 DEF GoalNext
<1>. QED  BY <1>1, GoalInitInv, PTL DEF GoalSpec

-----------------------------------------------------------------------------
(* Theorems *)

\* Every variable keeps its range, for any capacity and any arguments.
THEOREM GoalTypeCorrect == GoalSpec => []GoalTypeOK
<1>1. GoalInv => GoalTypeOK
  BY DEF GoalInv
<1>. QED  BY <1>1, GoalInvariant, PTL

\* Unless a title brings dependencies of its own, every file that Load can parse
\* passes Validate, wherever a write ended: ids only grow, so no cycle is stored.
THEOREM GraphsAreValid == GoalSpec => []GraphValid
<1>1. GoalInv => GraphValid
  BY OrderedIsValid DEF GoalInv, GoalTypeOK, GraphValid
<1>. QED  BY <1>1, GoalInvariant, PTL

\* In an ordered graph the first open goal has all it needs.
THEOREM PlansNeverStick == GoalSpec => []SomethingReady
<1>1. ASSUME GoalInv  PROVE SomethingReady
  <2>1. SUFFICES ASSUME Loads,
                        \A k \in DOMAIN nodes : nodes[k].status \in {"PENDING", "READY", "DONE"},
                        \E k \in DOMAIN nodes : nodes[k].status # "DONE"
                 PROVE  \E k \in DOMAIN nodes : IsReady(k)
    BY DEF SomethingReady
  <2>. DEFINE open == {k \in DOMAIN nodes : nodes[k].status # "DONE"}
  <2>2. DOMAIN nodes = 1 .. Len(nodes) /\ Len(nodes) \in Nat
    BY <1>1 DEF GoalInv, GoalTypeOK
  <2>3. open \subseteq Nat /\ open # {}
    BY <2>1, <2>2
  <2>4. PICK k \in open : \A n \in open : k <= n
    <3>. HIDE DEF open
    <3>. QED  BY <2>3, LeastMember
  <2>5. Needs(nodes, k) \subseteq 1 .. k - 1
    <3>1. Ordered(nodes)
      BY <1>1, <2>1, ValidIsOrdered DEF Loads, GoalInv, GoalTypeOK
    <3>. QED  BY <2>4, <3>1 DEF Ordered
  <2>6. \A d \in Needs(nodes, k) : nodes[d].status = "DONE"
    BY <2>2, <2>4, <2>5
  <2>. QED  BY <2>1, <2>4, <2>6 DEF IsReady, AllDone
<1>. QED  BY <1>1, GoalInvariant, PTL

\* No goal is done before what it was declared to depend on, with the exceptions
\* the property names.
THEOREM DependenciesComeFirst == GoalSpec => []DoneAfterDependencies
<1>1. GoalInv => DoneAfterDependencies
  BY DEF GoalInv
<1>. QED  BY <1>1, GoalInvariant, PTL

-----------------------------------------------------------------------------
(* Loops, as functions of the round *)

\* A set that holds 0 and, with a round, the next one, holds all of them.
LEMMA EveryRound ==
    ASSUME NEW n \in Nat, NEW P, 0 \in P, \A k \in 1 .. n : k - 1 \in P => k \in P
    PROVE  0 .. n \subseteq P
<1>. DEFINE S == (0 .. n) \ P
<1>. SUFFICES ASSUME S # {} PROVE FALSE
  OBVIOUS
<1>1. PICK m \in S : \A k \in S : m <= k
  <2>1. S \subseteq Nat
    OBVIOUS
  <2>. HIDE DEF S
  <2>. QED  BY <2>1, LeastMember
<1>2. m # 0 /\ m \in 1 .. n /\ m - 1 \in 0 .. n /\ m - 1 \notin S
  BY <1>1
<1>. QED  BY <1>1, <1>2

\* A loop of n rounds that begins with b and stays in X.
HasRounds(X, b, n, round) ==
    \E f \in [0 .. n -> X] : f[0] = b /\ \A k \in 1 .. n : f[k] = round[<<k, f[k - 1]>>]

\* Whatever a round makes of the value before it, the loop has a value after
\* every round.
LEMMA RoundsExist ==
    ASSUME NEW X, NEW b \in X, NEW n \in Nat, NEW round,
           \A k \in 1 .. n : \A x \in X : round[<<k, x>>] \in X
    PROVE  HasRounds(X, b, n, round)
<1>. DEFINE Upto(m) == HasRounds(X, b, m, round)
            P == {m \in 0 .. n : Upto(m)}
<1>1. 0 \in P
  <2>1. PICK f : f = [k \in 0 .. 0 |-> b]
    OBVIOUS
  <2>2. f \in [0 .. 0 -> X] /\ f[0] = b /\ 1 .. 0 = {}
    BY <2>1
  <2>3. Upto(0)
    BY <2>2 DEF HasRounds
  <2>. QED  BY <2>3
<1>2. ASSUME NEW m \in 1 .. n, m - 1 \in P
      PROVE  m \in P
  <2>1. PICK f \in [0 .. m - 1 -> X] :
           f[0] = b /\ \A k \in 1 .. m - 1 : f[k] = round[<<k, f[k - 1]>>]
    BY <1>2 DEF HasRounds
  <2>. DEFINE g == [k \in 0 .. m |-> IF k = m THEN round[<<m, f[m - 1]>>] ELSE f[k]]
  <2>2. f[m - 1] \in X /\ round[<<m, f[m - 1]>>] \in X
    <3>1. m - 1 \in 0 .. m - 1
      OBVIOUS
    <3>. QED  BY <3>1, <2>1
  <2>3. g \in [0 .. m -> X] /\ g[0] = b
    BY <2>1, <2>2
  <2>4. ASSUME NEW k \in 1 .. m
        PROVE  g[k] = round[<<k, g[k - 1]>>]
    <3>1. g[k - 1] = f[k - 1]
      OBVIOUS
    <3>2. CASE k = m
      <4>1. g[m] = round[<<m, f[m - 1]>>]
        OBVIOUS
      <4>. QED  BY <3>1, <3>2, <4>1
    <3>3. CASE k # m
      <4>1. k \in 1 .. m - 1 /\ g[k] = f[k]
        BY <3>3
      <4>. QED  BY <2>1, <3>1, <4>1
    <3>. QED  BY <3>2, <3>3
  <2>. HIDE DEF g
  <2>5. Upto(m)
    BY <2>3, <2>4 DEF HasRounds
  <2>. QED  BY <2>5
<1>. HIDE DEF P
<1>3. 0 .. n \subseteq P
  BY <1>1, <1>2, EveryRound
<1>. QED  BY <1>3 DEF P

-----------------------------------------------------------------------------
(* The goals that are ready *)

IsFound(f, n) ==
    f = [k \in 0 .. n |-> IF k = 0 THEN <<>>
                          ELSE IF IsReady(k) THEN Append(f[k - 1], k) ELSE f[k - 1]]

LEMMA FoundExists == ASSUME NEW n \in Nat PROVE \E f : IsFound(f, n)
<1>. PICK round : round = [p \in (1 .. n) \X Seq(Nat) |->
                             IF IsReady(p[1]) THEN Append(p[2], p[1]) ELSE p[2]]
  OBVIOUS
<1>1. \A k \in 1 .. n : \A s \in Seq(Nat) :
         round[<<k, s>>] = (IF IsReady(k) THEN Append(s, k) ELSE s) /\ round[<<k, s>>] \in Seq(Nat)
  OBVIOUS
<1>2. <<>> \in Seq(Nat)
  OBVIOUS
<1>3. PICK f \in [0 .. n -> Seq(Nat)] :
         f[0] = <<>> /\ \A k \in 1 .. n : f[k] = round[<<k, f[k - 1]>>]
  <2>1. HasRounds(Seq(Nat), <<>>, n, round)
    BY <1>1, <1>2, RoundsExist
  <2>. QED  BY <2>1 DEF HasRounds
<1>4. ASSUME NEW k \in 0 .. n
      PROVE  f[k] = IF k = 0 THEN <<>> ELSE IF IsReady(k) THEN Append(f[k - 1], k) ELSE f[k - 1]
  <2>1. CASE k = 0
    BY <1>3, <2>1
  <2>2. CASE k # 0
    <3>1. k \in 1 .. n /\ k - 1 \in 0 .. n /\ f[k - 1] \in Seq(Nat)
      BY <1>3, <2>2
    <3>. QED  BY <1>1, <1>3, <2>2, <3>1
  <2>. QED  BY <2>1, <2>2
<1>5. f = [k \in 0 .. n |-> f[k]]
  BY <1>3
<1>6. IsFound(f, n)
  BY <1>4, <1>5 DEF IsFound
<1>. QED  BY <1>6

LEMMA FoundIsLast ==
    ASSUME Len(nodes) \in Nat
    PROVE  \E f : IsFound(f, Len(nodes)) /\ Found = f[Len(nodes)]
<1>. DEFINE f == CHOOSE g : IsFound(g, Len(nodes))
<1>1. IsFound(f, Len(nodes))
  BY FoundExists
<1>2. Found = f[Len(nodes)]
  BY DEF Found, IsFound
<1>. QED  BY <1>1, <1>2

Distinct(s) == \A a, b \in DOMAIN s : a # b => s[a] # s[b]

\* The first loop of ListReady finds every ready goal once.
LEMMA FoundOnce ==
    ASSUME GoalTypeOK
    PROVE  /\ Found \in Seq(DOMAIN nodes) /\ Distinct(Found)
           /\ Range(Found) = {k \in DOMAIN nodes : IsReady(k)}
<1>1. Len(nodes) \in Nat /\ DOMAIN nodes = 1 .. Len(nodes)
  BY DEF GoalTypeOK
<1>2. PICK f : IsFound(f, Len(nodes)) /\ Found = f[Len(nodes)]
  BY <1>1, FoundIsLast
<1>3. ASSUME NEW k \in 0 .. Len(nodes)
      PROVE  f[k] = IF k = 0 THEN <<>> ELSE IF IsReady(k) THEN Append(f[k - 1], k) ELSE f[k - 1]
  BY <1>2 DEF IsFound
<1>. DEFINE Good(s, k) == /\ s \in Seq(1 .. k) /\ Distinct(s)
                          /\ \A n \in 1 .. k : IsReady(n) <=> \E i \in DOMAIN s : s[i] = n
            P == {k \in 0 .. Len(nodes) : Good(f[k], k)}
<1>4. 0 \in P
  <2>1. f[0] = <<>> /\ DOMAIN f[0] = {}
    BY <1>1, <1>3
  <2>2. Good(f[0], 0)
    BY <2>1 DEF Distinct
  <2>. QED  BY <1>1, <2>2
<1>5. ASSUME NEW k \in 1 .. Len(nodes), k - 1 \in P
      PROVE  k \in P
  <2>1. k \in 0 .. Len(nodes) /\ k - 1 \in 0 .. Len(nodes) /\ k # 0
    BY <1>1
  <2>2. PICK s : s = f[k - 1]
    OBVIOUS
  <2>3. Good(s, k - 1)
    BY <1>5, <2>2
  <2>4. s \in Seq(1 .. k) /\ Len(s) \in Nat /\ DOMAIN s = 1 .. Len(s)
        /\ \A i \in DOMAIN s : s[i] \in 1 .. k - 1
    <3>1. 1 .. k - 1 \subseteq 1 .. k
      BY <2>1
    <3>. QED  BY <2>3, <3>1
  <2>5. CASE IsReady(k)
    <3>1. f[k] = Append(s, k)
      BY <1>3, <2>1, <2>2, <2>5
    <3>2. PICK t : t = Append(s, k)
      OBVIOUS
    <3>3. /\ t \in Seq(1 .. k) /\ DOMAIN t = DOMAIN s \cup {Len(s) + 1} /\ t[Len(s) + 1] = k
          /\ Len(s) + 1 \notin DOMAIN s /\ \A i \in DOMAIN s : t[i] = s[i]
      BY <2>1, <2>4, <3>2
    <3>4. Distinct(t)
      <4>. SUFFICES ASSUME NEW a \in DOMAIN t, NEW b \in DOMAIN t, a # b PROVE t[a] # t[b]
        BY DEF Distinct
      <4>1. CASE a \in DOMAIN s /\ b \in DOMAIN s
        BY <2>3, <3>3, <4>1 DEF Distinct
      <4>2. CASE a \notin DOMAIN s
        <5>1. t[a] = k /\ b \in DOMAIN s /\ t[b] \in 1 .. k - 1
          BY <2>4, <3>3, <4>2
        <5>. QED  BY <5>1
      <4>3. CASE b \notin DOMAIN s
        <5>1. t[b] = k /\ a \in DOMAIN s /\ t[a] \in 1 .. k - 1
          BY <2>4, <3>3, <4>3
        <5>. QED  BY <5>1
      <4>. QED  BY <4>1, <4>2, <4>3
    <3>5. ASSUME NEW n \in 1 .. k
          PROVE  IsReady(n) <=> \E i \in DOMAIN t : t[i] = n
      <4>1. CASE n = k
        BY <2>5, <3>3, <4>1
      <4>2. CASE n # k
        <5>1. n \in 1 .. k - 1
          BY <4>2
        <5>. QED  BY <2>3, <3>3, <4>2, <5>1
      <4>. QED  BY <4>1, <4>2
    <3>. QED  BY <2>1, <3>1, <3>2, <3>3, <3>4, <3>5
  <2>6. CASE ~IsReady(k)
    <3>1. f[k] = s
      BY <1>3, <2>1, <2>2, <2>6
    <3>2. ASSUME NEW n \in 1 .. k
          PROVE  IsReady(n) <=> \E i \in DOMAIN s : s[i] = n
      <4>1. CASE n = k
        BY <2>4, <2>6, <4>1
      <4>2. CASE n # k
        <5>1. n \in 1 .. k - 1
          BY <4>2
        <5>. QED  BY <2>3, <5>1
      <4>. QED  BY <4>1, <4>2
    <3>. QED  BY <2>1, <2>3, <2>4, <3>1, <3>2
  <2>. QED  BY <2>5, <2>6
<1>. HIDE DEF P
<1>6. 0 .. Len(nodes) \subseteq P
  BY <1>1, <1>4, <1>5, EveryRound
<1>7. Good(Found, Len(nodes))
  BY <1>1, <1>2, <1>6 DEF P
<1>. QED  BY <1>1, <1>7 DEF Range

-----------------------------------------------------------------------------
(* The sort *)

\* The sequences that hold the same goals.
Rearranged(s) ==
    {t \in Seq(DOMAIN nodes) : Len(t) = Len(s) /\ Range(t) = Range(s) /\ Distinct(t)}

\* The order of the ready goals is total and transitive.
LEMMA OrderOfGoals ==
    ASSUME GoalTypeOK, NEW a \in DOMAIN nodes, NEW b \in DOMAIN nodes, NEW c \in DOMAIN nodes
    PROVE  /\ a # b => Before(a, b) \/ Before(b, a)
           /\ Before(a, b) /\ Before(b, c) => Before(a, c)
<1>1. a \in Nat /\ b \in Nat /\ c \in Nat
  BY DEF GoalTypeOK
<1>2. nodes[a].priority \in Nat /\ nodes[b].priority \in Nat /\ nodes[c].priority \in Nat
  BY NodeType DEF GoalTypeOK
<1>. QED  BY <1>1, <1>2 DEF Before

\* An exchange keeps the goals, and leaves the two places in order.
LEMMA ExchangedPlaces ==
    ASSUME GoalTypeOK, NEW s, NEW t \in Rearranged(s),
           NEW i \in DOMAIN t, NEW j \in DOMAIN t, i # j
    PROVE  LET u == Exchange(t, i, j) IN
           /\ u \in Rearranged(s)
           /\ \A m \in DOMAIN t \ {i, j} : u[m] = t[m]
           /\ \/ Before(t[j], t[i]) /\ u[i] = t[j] /\ u[j] = t[i]
              \/ Before(t[i], t[j]) /\ u = t
<1>1. t \in Seq(DOMAIN nodes) /\ Len(t) = Len(s) /\ Range(t) = Range(s) /\ Distinct(t)
  BY DEF Rearranged
<1>2. t[i] \in DOMAIN nodes /\ t[j] \in DOMAIN nodes /\ t[i] # t[j]
  BY <1>1 DEF Distinct
<1>3. CASE Before(t[j], t[i])
  <2>1. PICK u : u = [t EXCEPT ![i] = t[j], ![j] = t[i]]
    OBVIOUS
  <2>2. Exchange(t, i, j) = u
    BY <1>3, <2>1 DEF Exchange
  <2>3. /\ u \in Seq(DOMAIN nodes) /\ Len(u) = Len(t) /\ DOMAIN u = DOMAIN t
        /\ u[i] = t[j] /\ u[j] = t[i]
        /\ \A m \in DOMAIN t \ {i, j} : u[m] = t[m]
    BY <1>1, <1>2, <2>1
  <2>4. Range(u) = Range(t)
    BY <2>3 DEF Range
  <2>5. Distinct(u)
    BY <1>1, <2>3 DEF Distinct
  <2>. QED  BY <1>1, <1>3, <2>2, <2>3, <2>4, <2>5 DEF Rearranged
<1>4. CASE ~Before(t[j], t[i])
  <2>1. Exchange(t, i, j) = t
    BY <1>4 DEF Exchange
  <2>2. Before(t[i], t[j])
    BY <1>2, <1>4, OrderOfGoals
  <2>. QED  BY <2>1, <2>2
<1>. QED  BY <1>3, <1>4

IsSettling(f, s, i) ==
    f = [k \in 0 .. Len(s) - i |-> IF k = 0 THEN s ELSE Exchange(f[k - 1], i, i + k)]

LEMMA SettlingExists ==
    ASSUME GoalTypeOK, NEW s \in Seq(DOMAIN nodes), Distinct(s), NEW i \in DOMAIN s
    PROVE  \E f : IsSettling(f, s, i)
<1>1. PICK n \in Nat : n = Len(s) - i
  OBVIOUS
<1>2. PICK X : X = Rearranged(s)
  OBVIOUS
<1>3. s \in X
  BY <1>2 DEF Rearranged
<1>4. PICK round : round = [p \in (1 .. n) \X X |-> Exchange(p[2], i, i + p[1])]
  OBVIOUS
<1>5. \A k \in 1 .. n : \A t \in X :
         round[<<k, t>>] = Exchange(t, i, i + k) /\ round[<<k, t>>] \in X
  <2>. SUFFICES ASSUME NEW k \in 1 .. n, NEW t \in X
                PROVE  round[<<k, t>>] = Exchange(t, i, i + k) /\ round[<<k, t>>] \in X
    OBVIOUS
  <2>1. t \in Seq(DOMAIN nodes) /\ Len(t) = Len(s)
    BY <1>2 DEF Rearranged
  <2>2. i \in DOMAIN t /\ i + k \in DOMAIN t /\ i # i + k
    BY <1>1, <2>1
  <2>3. Exchange(t, i, i + k) \in X
    BY <1>2, <2>2, ExchangedPlaces
  <2>4. round[<<k, t>>] = Exchange(t, i, i + k)
    BY <1>4
  <2>. QED  BY <2>3, <2>4
<1>6. HasRounds(X, s, n, round)
  BY <1>3, <1>5, RoundsExist
<1>7. PICK f \in [0 .. n -> X] : f[0] = s /\ \A k \in 1 .. n : f[k] = round[<<k, f[k - 1]>>]
  BY <1>6 DEF HasRounds
<1>8. ASSUME NEW k \in 0 .. n
      PROVE  f[k] = IF k = 0 THEN s ELSE Exchange(f[k - 1], i, i + k)
  <2>1. CASE k = 0
    BY <1>7, <2>1
  <2>2. CASE k # 0
    <3>1. k \in 1 .. n /\ k - 1 \in 0 .. n /\ f[k - 1] \in X
      BY <1>7, <2>2
    <3>. QED  BY <1>5, <1>7, <2>2, <3>1
  <2>. QED  BY <2>1, <2>2
<1>9. f = [k \in 0 .. n |-> f[k]]
  BY <1>7
<1>10. IsSettling(f, s, i)
  BY <1>1, <1>8, <1>9 DEF IsSettling
<1>. QED  BY <1>10

LEMMA SettleIsLast ==
    ASSUME GoalTypeOK, NEW s \in Seq(DOMAIN nodes), Distinct(s), NEW i \in DOMAIN s
    PROVE  \E f : IsSettling(f, s, i) /\ Settle(s, i) = f[Len(s) - i]
<1>. DEFINE f == CHOOSE g : IsSettling(g, s, i)
<1>1. IsSettling(f, s, i)
  BY SettlingExists
<1>2. Settle(s, i) = f[Len(s) - i]
  BY DEF Settle, IsSettling
<1>. QED  BY <1>1, <1>2

\* The inner loop leaves the places before i as they were and puts the goal
\* that comes before all the rest at place i.
LEMMA SettledPlace ==
    ASSUME GoalTypeOK, NEW s \in Seq(DOMAIN nodes), Distinct(s), NEW i \in DOMAIN s
    PROVE  LET u == Settle(s, i) IN
           /\ u \in Rearranged(s)
           /\ \A m \in 1 .. i - 1 : u[m] = s[m]
           /\ \A m \in i + 1 .. Len(s) : Before(u[i], u[m])
<1>1. PICK f : IsSettling(f, s, i) /\ Settle(s, i) = f[Len(s) - i]
  BY SettleIsLast
<1>2. PICK n \in Nat : n = Len(s) - i
  OBVIOUS
<1>3. ASSUME NEW k \in 0 .. n
      PROVE  f[k] = IF k = 0 THEN s ELSE Exchange(f[k - 1], i, i + k)
  BY <1>1, <1>2 DEF IsSettling
<1>. DEFINE Good(t, k) == /\ t \in Rearranged(s)
                          /\ \A m \in 1 .. i - 1 : t[m] = s[m]
                          /\ \A m \in i + 1 .. i + k : Before(t[i], t[m])
            P == {k \in 0 .. n : Good(f[k], k)}
<1>4. 0 \in P
  <2>1. f[0] = s /\ s \in Rearranged(s)
    BY <1>3 DEF Rearranged
  <2>2. i + 1 .. i + 0 = {}
    OBVIOUS
  <2>. QED  BY <2>1, <2>2
<1>5. ASSUME NEW k \in 1 .. n, k - 1 \in P
      PROVE  k \in P
  <2>1. PICK t, u, j : t = f[k - 1] /\ u = f[k] /\ j = i + k
    OBVIOUS
  <2>2. /\ t \in Rearranged(s)
        /\ \A m \in 1 .. i - 1 : t[m] = s[m]
        /\ \A m \in i + 1 .. j - 1 : Before(t[i], t[m])
    BY <1>5, <2>1
  <2>3. t \in Seq(DOMAIN nodes) /\ Len(t) = Len(s) /\ DOMAIN t = DOMAIN s
    BY <2>2 DEF Rearranged
  <2>4. i \in DOMAIN t /\ j \in DOMAIN t /\ i # j /\ j \in Nat /\ i \in Nat /\ i < j
    BY <1>2, <2>1, <2>3
  <2>5. u = Exchange(t, i, j)
    BY <1>3, <2>1
  <2>6. /\ u \in Rearranged(s)
        /\ \A m \in DOMAIN t \ {i, j} : u[m] = t[m]
        /\ \/ Before(t[j], t[i]) /\ u[i] = t[j] /\ u[j] = t[i]
           \/ Before(t[i], t[j]) /\ u = t
    BY <2>2, <2>4, <2>5, ExchangedPlaces
  <2>7. \A m \in 1 .. i - 1 : u[m] = s[m]
    <3>1. \A m \in 1 .. i - 1 : m \in DOMAIN t \ {i, j}
      BY <2>3, <2>4
    <3>. QED  BY <2>2, <2>6, <3>1
  <2>8. ASSUME NEW m \in i + 1 .. j
        PROVE  Before(u[i], u[m])
    <3>1. m \in DOMAIN t /\ m # i
      BY <2>3, <2>4
    <3>2. t[i] \in DOMAIN nodes /\ t[j] \in DOMAIN nodes /\ t[m] \in DOMAIN nodes
      BY <2>3, <2>4, <3>1
    <3>3. CASE m = j
      BY <2>6, <3>3
    <3>4. CASE m # j
      <4>1. Before(t[i], t[m]) /\ u[m] = t[m]
        BY <2>2, <2>4, <2>6, <3>1, <3>4
      <4>. QED  BY <2>6, <3>2, <4>1, OrderOfGoals
    <3>. QED  BY <3>3, <3>4
  <2>9. Good(u, k)
    BY <2>1, <2>6, <2>7, <2>8
  <2>. QED  BY <2>1, <2>9
<1>. HIDE DEF P
<1>6. 0 .. n \subseteq P
  BY <1>4, <1>5, EveryRound
<1>7. n \in P
  BY <1>6
<1>8. Good(f[n], n)
  BY <1>7 DEF P
<1>9. Settle(s, i) = f[n]
  BY <1>1, <1>2
<1>10. i + n = Len(s)
  <2>1. Len(s) \in Nat /\ i \in Nat
    OBVIOUS
  <2>. QED  BY <1>2, <2>1
<1>. QED  BY <1>8, <1>9, <1>10

IsSorting(f, s) ==
    f = [k \in 0 .. Len(s) |-> IF k = 0 THEN s ELSE Settle(f[k - 1], k)]

\* What the goals of a rearrangement can be rearranged to.
LEMMA RearrangedAgain ==
    ASSUME NEW s, NEW t \in Rearranged(s)
    PROVE  /\ t \in Seq(DOMAIN nodes) /\ Distinct(t) /\ Len(t) = Len(s)
           /\ Rearranged(t) = Rearranged(s)
BY DEF Rearranged

LEMMA SortingExists ==
    ASSUME GoalTypeOK, NEW s \in Seq(DOMAIN nodes), Distinct(s)
    PROVE  \E f : IsSorting(f, s)
<1>1. PICK n \in Nat : n = Len(s)
  OBVIOUS
<1>2. PICK X : X = Rearranged(s)
  OBVIOUS
<1>3. s \in X
  BY <1>2 DEF Rearranged
<1>4. PICK round : round = [p \in (1 .. n) \X X |-> Settle(p[2], p[1])]
  OBVIOUS
<1>5. \A k \in 1 .. n : \A t \in X :
         round[<<k, t>>] = Settle(t, k) /\ round[<<k, t>>] \in X
  <2>. SUFFICES ASSUME NEW k \in 1 .. n, NEW t \in X
                PROVE  round[<<k, t>>] = Settle(t, k) /\ round[<<k, t>>] \in X
    OBVIOUS
  <2>1. t \in Seq(DOMAIN nodes) /\ Distinct(t) /\ Len(t) = Len(s) /\ Rearranged(t) = X
    BY <1>2, RearrangedAgain
  <2>2. k \in DOMAIN t
    BY <1>1, <2>1
  <2>3. Settle(t, k) \in X
    BY <2>1, <2>2, SettledPlace
  <2>4. round[<<k, t>>] = Settle(t, k)
    BY <1>4
  <2>. QED  BY <2>3, <2>4
<1>6. HasRounds(X, s, n, round)
  BY <1>3, <1>5, RoundsExist
<1>7. PICK f \in [0 .. n -> X] : f[0] = s /\ \A k \in 1 .. n : f[k] = round[<<k, f[k - 1]>>]
  BY <1>6 DEF HasRounds
<1>8. ASSUME NEW k \in 0 .. n
      PROVE  f[k] = IF k = 0 THEN s ELSE Settle(f[k - 1], k)
  <2>1. CASE k = 0
    BY <1>7, <2>1
  <2>2. CASE k # 0
    <3>1. k \in 1 .. n /\ k - 1 \in 0 .. n /\ f[k - 1] \in X
      BY <1>7, <2>2
    <3>. QED  BY <1>5, <1>7, <2>2, <3>1
  <2>. QED  BY <2>1, <2>2
<1>9. f = [k \in 0 .. n |-> f[k]]
  BY <1>7
<1>10. IsSorting(f, s)
  BY <1>1, <1>8, <1>9 DEF IsSorting
<1>. QED  BY <1>10

LEMMA SortedIsLast ==
    ASSUME GoalTypeOK, NEW s \in Seq(DOMAIN nodes), Distinct(s)
    PROVE  \E f : IsSorting(f, s) /\ Sorted(s) = f[Len(s)]
<1>. DEFINE f == CHOOSE g : IsSorting(g, s)
<1>1. IsSorting(f, s)
  BY SortingExists
<1>2. Sorted(s) = f[Len(s)]
  BY DEF Sorted, IsSorting
<1>. QED  BY <1>1, <1>2

\* Both loops together: the same goals, each before all that follow it.
LEMMA SortedPlaces ==
    ASSUME GoalTypeOK, NEW s \in Seq(DOMAIN nodes), Distinct(s)
    PROVE  LET u == Sorted(s) IN
           /\ u \in Rearranged(s)
           /\ \A a \in 1 .. Len(s) : \A b \in a + 1 .. Len(s) : Before(u[a], u[b])
<1>1. PICK f : IsSorting(f, s) /\ Sorted(s) = f[Len(s)]
  BY SortedIsLast
<1>2. PICK n \in Nat : n = Len(s)
  OBVIOUS
<1>3. ASSUME NEW k \in 0 .. n
      PROVE  f[k] = IF k = 0 THEN s ELSE Settle(f[k - 1], k)
  BY <1>1, <1>2 DEF IsSorting
<1>. DEFINE Good(t, k) == /\ t \in Rearranged(s)
                          /\ \A a \in 1 .. k : \A b \in a + 1 .. n : Before(t[a], t[b])
            P == {k \in 0 .. n : Good(f[k], k)}
<1>4. 0 \in P
  <2>1. f[0] = s /\ s \in Rearranged(s)
    BY <1>3 DEF Rearranged
  <2>. QED  BY <2>1
<1>5. ASSUME NEW k \in 1 .. n, k - 1 \in P
      PROVE  k \in P
  <2>1. PICK t, u : t = f[k - 1] /\ u = f[k]
    OBVIOUS
  <2>2. /\ t \in Rearranged(s)
        /\ \A a \in 1 .. k - 1 : \A b \in a + 1 .. n : Before(t[a], t[b])
    BY <1>5, <2>1
  <2>3. /\ t \in Seq(DOMAIN nodes) /\ Distinct(t) /\ Len(t) = n
        /\ Rearranged(t) = Rearranged(s)
    BY <1>2, <2>2, RearrangedAgain
  <2>4. k \in DOMAIN t /\ u = Settle(t, k)
    BY <1>3, <2>1, <2>3
  <2>5. /\ u \in Rearranged(t)
        /\ \A m \in 1 .. k - 1 : u[m] = t[m]
        /\ \A m \in k + 1 .. n : Before(u[k], u[m])
    BY <2>3, <2>4, SettledPlace
  <2>6. u \in Seq(DOMAIN nodes) /\ Len(u) = n /\ Range(u) = Range(t) /\ Distinct(u)
    BY <2>3, <2>5 DEF Rearranged
  \* What is at place k and after it comes from there.
  <2>7. ASSUME NEW b \in k .. n
        PROVE  \E m \in k .. n : u[b] = t[m]
    <3>1. b \in DOMAIN u
      BY <2>6
    <3>2. PICK m \in DOMAIN t : u[b] = t[m]
      BY <2>6, <3>1 DEF Range
    <3>3. m \notin 1 .. k - 1
      <4>. SUFFICES ASSUME m \in 1 .. k - 1 PROVE FALSE
        OBVIOUS
      <4>1. u[m] = u[b] /\ m # b /\ m \in DOMAIN u
        BY <2>3, <2>5, <2>6, <3>2
      <4>. QED  BY <2>6, <3>1, <4>1 DEF Distinct
    <3>4. m \in k .. n
      BY <2>3, <3>3
    <3>. QED  BY <3>2, <3>4
  <2>8. ASSUME NEW a \in 1 .. k, NEW b \in a + 1 .. n
        PROVE  Before(u[a], u[b])
    <3>1. CASE a = k
      BY <2>5, <3>1
    <3>2. CASE a # k /\ b < k
      <4>1. a \in 1 .. k - 1 /\ b \in 1 .. k - 1
        BY <3>2
      <4>. QED  BY <2>2, <2>5, <4>1
    <3>3. CASE a # k /\ b >= k
      <4>1. a \in 1 .. k - 1 /\ b \in k .. n
        BY <3>3
      <4>2. PICK m \in k .. n : u[b] = t[m]
        BY <2>7, <4>1
      <4>3. m \in a + 1 .. n
        BY <4>1
      <4>. QED  BY <2>2, <2>5, <4>1, <4>2, <4>3
    <3>. QED  BY <3>1, <3>2, <3>3
  <2>9. Good(u, k)
    BY <2>3, <2>5, <2>8
  <2>. QED  BY <2>1, <2>9
<1>. HIDE DEF P
<1>6. 0 .. n \subseteq P
  BY <1>4, <1>5, EveryRound
<1>7. n \in P
  BY <1>6
<1>8. Good(f[n], n)
  BY <1>7 DEF P
<1>. QED  BY <1>1, <1>2, <1>8

\* ListReady (NxGoalGraph.c:187) offers every ready goal once, the highest
\* priority first and the lower id first among equals, however many there are:
\* no later exchange undoes the order of the places before it.
THEOREM ReadyIsSorted == GoalSpec => []ReadyInOrder
<1>1. GoalInv => ReadyInOrder
  <2>. SUFFICES ASSUME GoalTypeOK PROVE ReadyInOrder
    BY DEF GoalInv
  <2>1. /\ Found \in Seq(DOMAIN nodes) /\ Distinct(Found)
        /\ Range(Found) = {k \in DOMAIN nodes : IsReady(k)}
    BY FoundOnce
  <2>2. /\ Ready \in Rearranged(Found)
        /\ \A a \in 1 .. Len(Found) : \A b \in a + 1 .. Len(Found) : Before(Ready[a], Ready[b])
    BY <2>1, SortedPlaces DEF Ready
  <2>3. Range(Ready) = Range(Found) /\ Len(Ready) = Len(Found) /\ DOMAIN Ready = 1 .. Len(Found)
        /\ Len(Found) \in Nat
    BY <2>1, <2>2 DEF Rearranged
  <2>4. ASSUME NEW i \in DOMAIN Ready, NEW j \in DOMAIN Ready, i < j
        PROVE  Before(Ready[i], Ready[j])
    <3>1. i \in 1 .. Len(Found) /\ j \in i + 1 .. Len(Found)
      BY <2>3, <2>4
    <3>. QED  BY <2>2, <3>1
  <2>. QED  BY <2>1, <2>3, <2>4 DEF ReadyInOrder
<1>. QED  BY <1>1, GoalInvariant, PTL
=============================================================================
