-------------------------- MODULE ResearchLoopProofs --------------------------
(***************************************************************************)
(* Theorems about the research loop, for every capacity, every priority,   *)
(* every limit and every policy.                                           *)
(***************************************************************************)
EXTENDS ResearchLoop, FiniteSetTheorems, NaturalsInduction, WellFoundedInduction, TLAPS

USE ResearchAssumption

-----------------------------------------------------------------------------
(* The inductive invariant *)

Busy == Callbacks \cup {"policy"}

\* Between SelectNext and the mark that ends a cycle, the item of the loop is
\* the running item of the queue, and there is a cycle left for it.
HoldsItem ==
    pc \in Busy =>
       /\ item.id \in DOMAIN items /\ items[item.id] = item
       /\ item.state = "running" /\ item.attempts <= item.max_attempts
       /\ cycle < requested

\* Nothing runs but that item, and what waits has an attempt left.
OthersWait ==
    \A k \in DOMAIN items :
       /\ items[k].state = "running" => pc \in Busy /\ item.id = k
       /\ items[k].state = "pending" => items[k].attempts < items[k].max_attempts

\* The attempt that SelectNext counted is not executed before Accept.
AttemptsCounted ==
    \A k \in DOMAIN items :
       /\ executions[k] <= items[k].attempts
       /\ items[k].attempts <= items[k].max_attempts
       /\ pc = "policy" /\ item.id = k => executions[k] < items[k].attempts

\* A callback is reached with room in the budget.
BudgetLeft ==
    policy.items > 0 =>
       /\ session.executed <= policy.items
       /\ pc \in Callbacks => session.executed < policy.items

LoopInv == ResearchTypeOK /\ HoldsItem /\ OthersWait /\ AttemptsCounted /\ BudgetLeft

-----------------------------------------------------------------------------
(* Lemmas about the queue *)

\* The range of an item's fields.
LEMMA ItemType ==
    ASSUME ResearchTypeOK, NEW k \in DOMAIN items
    PROVE  /\ items[k] \in Item /\ items[k].attempts \in Nat /\ items[k].max_attempts \in Nat
           /\ items[k].state \in {"pending", "running"} \cup Finished
           /\ executions[k] \in Nat
<1>1. items[k] \in Item
  BY DEF ResearchTypeOK
<1>2. executions[k] \in Nat
  BY DEF ResearchTypeOK
<1>. QED  BY <1>1, <1>2 DEF Item

\* Ids are positions, so FindMutable returns the item at its id.
LEMMA PositionOfId ==
    ASSUME ResearchTypeOK, NEW k \in DOMAIN items
    PROVE  Position(k) = k
<1>. DEFINE At == {n \in DOMAIN items : items[n].id = k}
<1>1. At = {k}
  BY DEF ResearchTypeOK
<1>2. (CHOOSE x \in At : \A n \in At : x <= n) = k
  BY <1>1 DEF ResearchTypeOK
<1>. QED  BY <1>1, <1>2 DEF Position

\* What a mark leaves: the other items, and the marked one in its new state.
LEMMA MarkedItems ==
    ASSUME ResearchTypeOK, NEW n \in DOMAIN items, NEW s \in {"pending", "running"} \cup Finished,
           items' = [items EXCEPT ![n].state = s]
    PROVE  /\ items' \in Seq(Item) /\ Len(items') = Len(items) /\ DOMAIN items' = DOMAIN items
           /\ items'[n] = [items[n] EXCEPT !.state = s]
           /\ items'[n].state = s
           /\ items'[n].attempts = items[n].attempts
           /\ items'[n].max_attempts = items[n].max_attempts
           /\ \A k \in DOMAIN items : items'[k].id = items[k].id
           /\ \A k \in DOMAIN items \ {n} : items'[k] = items[k]
<1>1. items \in Seq(Item) /\ items[n] \in Item
  BY DEF ResearchTypeOK
<1>2. items'[n] = [items[n] EXCEPT !.state = s]
  BY <1>1
<1>3. items'[n] \in Item
  BY <1>1, <1>2 DEF Item
<1>4. \A k \in DOMAIN items \ {n} : items'[k] = items[k]
  BY <1>1
<1>5. items' \in Seq(Item) /\ Len(items') = Len(items) /\ DOMAIN items' = DOMAIN items
  BY <1>1, <1>3, <1>4
<1>. QED  BY <1>1, <1>2, <1>3, <1>4, <1>5 DEF Item

\* An item that was enqueued is pending, with an attempt to go.
LEMMA EnqueuedItem ==
    ASSUME ResearchTypeOK, NEW p \in Priorities, NEW limit \in AttemptLimits, Enqueue(p, limit)
    PROVE  /\ items' \in Seq(Item) /\ Len(items') = Len(items) + 1 /\ Len(items') <= Capacity
           /\ DOMAIN items' = DOMAIN items \cup {Len(items) + 1}
           /\ \A k \in DOMAIN items : items'[k] = items[k] /\ executions'[k] = executions[k]
           /\ items'[Len(items) + 1].id = Len(items) + 1
           /\ items'[Len(items) + 1].state = "pending"
           /\ items'[Len(items) + 1].attempts = 0
           /\ items'[Len(items) + 1].max_attempts > 0
           /\ executions' \in Seq(Nat) /\ Len(executions') = Len(items')
           /\ executions'[Len(items) + 1] = 0
           /\ next_id' = Len(items') + 1
<1>. DEFINE new == [id |-> next_id, priority |-> p, attempts |-> 0,
                    max_attempts |-> IF limit = 0 THEN 1 ELSE limit, state |-> "pending"]
<1>1. items \in Seq(Item) /\ next_id = Len(items) + 1 /\ Len(items) < Capacity
  BY DEF ResearchTypeOK, Enqueue, Room
<1>2. new \in Item /\ new.max_attempts > 0
  BY <1>1 DEF Item
<1>3. items' = Append(items, new) /\ executions' = Append(executions, 0)
  BY DEF Enqueue
<1>4. executions \in Seq(Nat) /\ Len(executions) = Len(items)
  BY DEF ResearchTypeOK
<1>5. items' \in Seq(Item) /\ Len(items') = Len(items) + 1 /\ items'[Len(items) + 1] = new
  BY <1>1, <1>2, <1>3
<1>. QED  BY <1>1, <1>2, <1>3, <1>4, <1>5 DEF Enqueue

-----------------------------------------------------------------------------
(* Induction *)

LEMMA LoopInit == Init => LoopInv
<1>. SUFFICES ASSUME Init PROVE LoopInv
  OBVIOUS
<1>1. items = <<>> /\ executions = <<>> /\ DOMAIN items = {}
  BY DEF Init
<1>2. NoItem \in Item /\ NewSession \in Session
  BY DEF NoItem, NewSession, Item, Session
<1>3. ResearchTypeOK
  BY <1>1, <1>2 DEF Init, ResearchTypeOK
<1>4. HoldsItem /\ OthersWait /\ AttemptsCounted
  BY <1>1 DEF Init, HoldsItem, OthersWait, AttemptsCounted, Busy, Callbacks
<1>5. BudgetLeft
  BY DEF Init, BudgetLeft, NewSession, DefaultPolicy, Callbacks
<1>. QED  BY <1>3, <1>4, <1>5 DEF LoopInv

\* A policy has a limit that can be compared with a counter.
LEMMA PolicyType ==
    ASSUME NEW p \in Policies \cup {DefaultPolicy}
    PROVE  p.minimum \in Int /\ p.attempts \in Nat /\ p.items \in Nat
<1>1. CASE p \in Policies
  <2>1. p \in [minimum : Int, attempts : Nat, items : Nat]
    BY <1>1
  <2>. QED  BY <2>1
<1>2. CASE p = DefaultPolicy
  BY <1>2 DEF DefaultPolicy
<1>. QED  BY <1>1, <1>2

LEMMA RunKeeps ==
    ASSUME LoopInv, NEW p \in Policies \cup {DefaultPolicy}, NEW n \in CycleRequests, Run(p, n)
    PROVE  LoopInv'
<1>1. NewSession \in Session
  BY DEF NewSession, Session
<1>2. ResearchTypeOK'
  BY <1>1 DEF LoopInv, ResearchTypeOK, Run, queue
<1>3. HoldsItem' /\ OthersWait' /\ AttemptsCounted'
  BY DEF LoopInv, HoldsItem, OthersWait, AttemptsCounted, Run, queue, Busy, Callbacks
<1>4. BudgetLeft'
  BY PolicyType DEF BudgetLeft, Run, NewSession, Callbacks
<1>. QED  BY <1>2, <1>3, <1>4 DEF LoopInv

LEMMA SelectKeeps ==
    ASSUME LoopInv, SelectNext
    PROVE  LoopInv'
<1>1. PICK k \in DOMAIN items :
         /\ First(k)
         /\ items' = [items EXCEPT ![k] = [@ EXCEPT !.state = "running", !.attempts = NextAttempt(items[k])]]
         /\ item' = items'[k]
  BY DEF SelectNext
<1>2. items \in Seq(Item) /\ items[k] \in Item /\ items[k].id = k
      /\ items[k].attempts \in Nat /\ items[k].max_attempts \in Nat
  BY ItemType DEF LoopInv, ResearchTypeOK
<1>3. PICK new : new = [items[k] EXCEPT !.state = "running", !.attempts = items[k].attempts + 1]
  OBVIOUS
<1>4. new \in Item /\ new.id = k /\ new.state = "running" /\ new.max_attempts = items[k].max_attempts
      /\ new.attempts = items[k].attempts + 1
  <2>1. PICK i \in Item : i = items[k]
    BY <1>2
  <2>2. PICK n \in Nat : n = items[k].attempts + 1
    BY <1>2
  <2>3. new = [i EXCEPT !.state = "running", !.attempts = n]
    BY <1>3, <2>1, <2>2
  <2>4. new \in Item /\ new.id = i.id /\ new.state = "running"
        /\ new.attempts = n /\ new.max_attempts = i.max_attempts
    BY <2>3 DEF Item
  <2>. QED  BY <1>2, <2>1, <2>2, <2>4
<1>5. items[k].state = "pending" /\ items[k].attempts < items[k].max_attempts
  BY <1>1 DEF First, Selectable
<1>6. items' \in Seq(Item) /\ Len(items') = Len(items) /\ DOMAIN items' = DOMAIN items
      /\ items'[k] = new /\ \A m \in DOMAIN items \ {k} : items'[m] = items[m]
  <2>1. items' = [items EXCEPT ![k] = new]
    BY <1>1, <1>2, <1>3 DEF NextAttempt
  <2>. QED  BY <1>2, <1>4, <2>1
<1>7. item' = new
  BY <1>1, <1>6
<1>8. pc = "select" /\ pc' = "policy" /\ cycle < requested
      /\ UNCHANGED <<next_id, policy, requested, cycle, session, status, executions>>
  BY DEF SelectNext
<1>9. ResearchTypeOK'
  BY <1>4, <1>6, <1>7, <1>8 DEF LoopInv, ResearchTypeOK
<1>11. HoldsItem'
  BY <1>4, <1>5, <1>6, <1>7, <1>8, <1>2 DEF HoldsItem
<1>12. OthersWait'
  BY <1>4, <1>6, <1>7, <1>8 DEF LoopInv, OthersWait, Busy, Callbacks
<1>13. executions \in Seq(Nat) /\ Len(executions) = Len(items)
  BY DEF LoopInv, ResearchTypeOK
<1>14. executions[k] \in Nat /\ executions[k] <= items[k].attempts
  BY <1>2, <1>13 DEF LoopInv, AttemptsCounted
<1>15. AttemptsCounted'
  <2>. SUFFICES ASSUME NEW m \in DOMAIN items
                PROVE  /\ executions[m] <= items'[m].attempts
                       /\ items'[m].attempts <= items'[m].max_attempts
                       /\ item'.id = m => executions[m] < items'[m].attempts
    BY <1>6, <1>8 DEF AttemptsCounted
  <2>1. CASE m = k
    BY <2>1, <1>4, <1>2, <1>5, <1>6, <1>14
  <2>2. CASE m # k
    BY <2>2, <1>4, <1>6, <1>7 DEF LoopInv, AttemptsCounted
  <2>. QED  BY <2>1, <2>2
<1>16. BudgetLeft'
  BY <1>8 DEF LoopInv, BudgetLeft, Callbacks
<1>. QED  BY <1>9, <1>11, <1>12, <1>15, <1>16 DEF LoopInv

\* A run that returns without touching an item.
LEMMA ReturnKeeps ==
    ASSUME LoopInv, NothingLeft \/ CyclesDone
    PROVE  LoopInv'
<1>1. pc = "select" /\ pc' = "idle" /\ item' = NoItem /\ status' \in {"ok", "empty"}
      /\ UNCHANGED <<items, next_id, policy, requested, cycle, session, executions>>
  BY DEF NothingLeft, CyclesDone, Return, queue
<1>2. NoItem \in Item
  BY DEF NoItem, Item
<1>3. ResearchTypeOK'
  BY <1>1, <1>2 DEF LoopInv, ResearchTypeOK
<1>4. HoldsItem' /\ OthersWait' /\ AttemptsCounted' /\ BudgetLeft'
  BY <1>1 DEF LoopInv, HoldsItem, OthersWait, AttemptsCounted, BudgetLeft, Busy, Callbacks
<1>. QED  BY <1>3, <1>4 DEF LoopInv

\* A cycle or a run ends: the item of the loop gets a state that is not
\* "running", and it waits only with an attempt left.
LEMMA EndOfCycleKeeps ==
    ASSUME LoopInv, pc \in Busy, NEW s \in {"pending"} \cup Finished,
           s = "pending" => item.attempts < item.max_attempts,
           items' = [items EXCEPT ![item.id].state = s],
           pc' \in {"select", "idle"}, item' = NoItem, status' \in {status, "ok", "empty"},
           cycle' \in {cycle, cycle + 1}, session' \in Session, executions' = executions,
           UNCHANGED <<next_id, policy, requested>>,
           policy.items > 0 => session'.executed <= policy.items
    PROVE  LoopInv'
<1>1. item.id \in DOMAIN items /\ items[item.id] = item /\ cycle < requested
  BY DEF LoopInv, HoldsItem
<1>2. ResearchTypeOK
  BY DEF LoopInv
<1>3. s \in {"pending", "running"} \cup Finished /\ s # "running"
  BY DEF Finished
<1>4. /\ items' \in Seq(Item) /\ Len(items') = Len(items) /\ DOMAIN items' = DOMAIN items
      /\ items'[item.id].state = s
      /\ items'[item.id].attempts = item.attempts
      /\ items'[item.id].max_attempts = item.max_attempts
      /\ \A k \in DOMAIN items : items'[k].id = items[k].id
      /\ \A k \in DOMAIN items \ {item.id} : items'[k] = items[k]
  BY <1>1, <1>2, <1>3, MarkedItems
<1>5. NoItem \in Item
  BY DEF NoItem, Item
<1>6. requested \in Nat /\ cycle \in Nat
  BY <1>2 DEF ResearchTypeOK
<1>7. ResearchTypeOK'
  BY <1>1, <1>2, <1>4, <1>5, <1>6 DEF ResearchTypeOK
<1>8. pc' \notin Busy /\ pc' \notin Callbacks /\ pc' # "policy"
  BY DEF Busy, Callbacks
<1>9. HoldsItem'
  BY <1>8 DEF HoldsItem, Busy, Callbacks
<1>10. OthersWait'
  <2>. SUFFICES ASSUME NEW k \in DOMAIN items
                PROVE  /\ items'[k].state # "running"
                       /\ items'[k].state = "pending" => items'[k].attempts < items'[k].max_attempts
    BY <1>4 DEF OthersWait
  <2>1. CASE k = item.id
    BY <2>1, <1>3, <1>4
  <2>2. CASE k # item.id
    BY <2>2, <1>4 DEF LoopInv, OthersWait
  <2>. QED  BY <2>1, <2>2
<1>11. AttemptsCounted'
  <2>. SUFFICES ASSUME NEW k \in DOMAIN items
                PROVE  /\ executions[k] <= items'[k].attempts
                       /\ items'[k].attempts <= items'[k].max_attempts
    BY <1>4, <1>8 DEF AttemptsCounted
  <2>1. items'[k].attempts = items[k].attempts /\ items'[k].max_attempts = items[k].max_attempts
    BY <1>1, <1>4
  <2>. QED  BY <2>1 DEF LoopInv, AttemptsCounted
<1>12. BudgetLeft'
  BY <1>8 DEF BudgetLeft, Busy, Callbacks
<1>. QED  BY <1>7, <1>9, <1>10, <1>11, <1>12 DEF LoopInv

\* What ends a cycle or a run changes in terms of the item of the loop.
LEMMA MarksItem ==
    ASSUME LoopInv, pc \in Busy
    PROVE  /\ \A s : Mark(item.id, s) => items' = [items EXCEPT ![item.id].state = s]
           /\ MarkFailed(item.id) => items' = [items EXCEPT ![item.id].state = AfterFailure(item)]
<1>1. item.id \in DOMAIN items /\ items[item.id] = item
  BY DEF LoopInv, HoldsItem
<1>2. Position(item.id) = item.id /\ item.id # 0
  BY <1>1, PositionOfId DEF LoopInv, ResearchTypeOK
<1>. QED  BY <1>1, <1>2 DEF Mark, MarkFailed

LEMMA SkipKeeps ==
    ASSUME LoopInv, Stop \/ Skip
    PROVE  LoopInv'
<1>1. pc \in Busy /\ pc' \in {"select", "idle"} /\ item' = NoItem
      /\ status' \in {status, "ok", "empty"} /\ cycle' \in {cycle, cycle + 1}
      /\ executions' = executions /\ UNCHANGED <<next_id, policy, requested>>
  BY DEF Stop, Skip, Return, NextCycle, Busy
<1>2. items' = [items EXCEPT ![item.id].state = "skipped"]
  BY <1>1, MarksItem DEF Stop, Skip
<1>3. session \in Session
  BY DEF LoopInv, ResearchTypeOK
<1>4. session' \in Session /\ session'.executed = session.executed
  <2>1. CASE Stop
    <3>1. session' = [executed |-> session.executed, succeeded |-> session.succeeded,
                     failed |-> session.failed, skipped |-> session.skipped + 1,
                     cycles |-> session.cycles]
      BY <1>3, <2>1 DEF Stop, Session
    <3>2. session.executed \in Nat /\ session.succeeded \in Nat /\ session.failed \in Nat
          /\ session.skipped \in Nat /\ session.cycles \in Nat
      BY <1>3 DEF Session
    <3>. QED  BY <3>1, <3>2 DEF Session
  <2>2. CASE Skip
    <3>1. session' = [executed |-> session.executed, succeeded |-> session.succeeded,
                     failed |-> session.failed, skipped |-> session.skipped + 1,
                     cycles |-> session.cycles + 1]
      BY <1>3, <2>2 DEF Skip, Session
    <3>2. session.executed \in Nat /\ session.succeeded \in Nat /\ session.failed \in Nat
          /\ session.skipped \in Nat /\ session.cycles \in Nat
      BY <1>3 DEF Session
    <3>. QED  BY <3>1, <3>2 DEF Session
  <2>. QED  BY <2>1, <2>2
<1>5. policy.items > 0 => session'.executed <= policy.items
  BY <1>4 DEF LoopInv, BudgetLeft
<1>. QED  BY <1>1, <1>2, <1>4, <1>5, EndOfCycleKeeps DEF Finished

\* A budget that is not spent has room for one more execution.
LEMMA AcceptKeeps ==
    ASSUME LoopInv, Accept
    PROVE  LoopInv'
<1>1. pc = "policy" /\ pc' = "execute" /\ ~BudgetSpent
      /\ executions' = [executions EXCEPT ![item.id] = @ + 1]
      /\ UNCHANGED <<items, next_id, policy, requested, cycle, item, session, status>>
  BY DEF Accept, queue
<1>2. pc \in Busy /\ pc' \in Callbacks /\ pc' \in Busy /\ pc' # "policy"
  BY <1>1 DEF Busy, Callbacks
<1>3. item.id \in DOMAIN items
  BY <1>2 DEF LoopInv, HoldsItem
<1>4. executions \in Seq(Nat) /\ Len(executions) = Len(items)
      /\ DOMAIN executions = DOMAIN items
  BY DEF LoopInv, ResearchTypeOK
<1>5. executions' \in Seq(Nat) /\ Len(executions') = Len(executions)
  BY <1>1, <1>3, <1>4
<1>6. ResearchTypeOK'
  BY <1>1, <1>2, <1>5 DEF LoopInv, ResearchTypeOK
<1>7. HoldsItem' /\ OthersWait'
  BY <1>1, <1>2 DEF LoopInv, HoldsItem, OthersWait, Busy, Callbacks
<1>8. AttemptsCounted'
  <2>. SUFFICES ASSUME NEW k \in DOMAIN items
                PROVE  /\ executions'[k] <= items[k].attempts
                       /\ items[k].attempts <= items[k].max_attempts
    BY <1>1 DEF AttemptsCounted
  <2>1. items[k].attempts \in Nat /\ executions[k] \in Nat
    BY ItemType DEF LoopInv
  <2>2. CASE k = item.id
    BY <2>1, <2>2, <1>1, <1>4 DEF LoopInv, AttemptsCounted
  <2>3. CASE k # item.id
    BY <2>3, <1>1, <1>4 DEF LoopInv, AttemptsCounted
  <2>. QED  BY <2>2, <2>3
<1>9. BudgetLeft'
  <2>1. session.executed \in Nat /\ policy.items \in Nat
    BY PolicyType DEF LoopInv, ResearchTypeOK, Session
  <2>. QED  BY <2>1, <1>1 DEF LoopInv, BudgetLeft, BudgetSpent
<1>. QED  BY <1>6, <1>7, <1>8, <1>9 DEF LoopInv

LEMMA CallbackKeeps ==
    ASSUME LoopInv, CallbackPasses
    PROVE  LoopInv'
<1>1. pc \in Callbacks /\ pc' \in Callbacks
      /\ UNCHANGED <<items, next_id, policy, requested, cycle, item, session, status, executions>>
  BY DEF CallbackPasses, Callbacks, queue
<1>2. pc \in Busy /\ pc' \in Busy /\ pc' # "policy"
  BY <1>1 DEF Busy, Callbacks
<1>3. ResearchTypeOK'
  BY <1>1 DEF LoopInv, ResearchTypeOK
<1>4. HoldsItem' /\ OthersWait' /\ AttemptsCounted' /\ BudgetLeft'
  BY <1>1, <1>2 DEF LoopInv, HoldsItem, OthersWait, AttemptsCounted, BudgetLeft, Busy, Callbacks
<1>. QED  BY <1>3, <1>4 DEF LoopInv

\* Each execution is counted once, and the budget had room for it.
LEMMA CycleEndKeeps ==
    ASSUME LoopInv, CallbackFails \/ LastCallbackPasses
    PROVE  LoopInv'
<1>. DEFINE s == IF CallbackFails THEN AfterFailure(item) ELSE "completed"
<1>1. pc \in Callbacks /\ pc \in Busy /\ pc' = "select" /\ item' = NoItem
      /\ status' = status /\ cycle' = cycle + 1
      /\ executions' = executions /\ UNCHANGED <<next_id, policy, requested>>
  BY DEF CallbackFails, LastCallbackPasses, NextCycle, Busy, Callbacks
<1>2. items' = [items EXCEPT ![item.id].state = s]
  BY <1>1, MarksItem DEF CallbackFails, LastCallbackPasses
<1>3. s \in {"pending"} \cup Finished /\ (s = "pending" => item.attempts < item.max_attempts)
  BY DEF AfterFailure, Finished
<1>4. session \in Session
  BY DEF LoopInv, ResearchTypeOK
<1>5. session' \in Session /\ session'.executed = session.executed + 1
  <2>1. CASE CallbackFails
    <3>1. session' = [executed |-> session.executed + 1, succeeded |-> session.succeeded,
                     failed |-> session.failed + 1, skipped |-> session.skipped,
                     cycles |-> session.cycles + 1]
      BY <1>4, <2>1 DEF CallbackFails, Session
    <3>2. session.executed \in Nat /\ session.succeeded \in Nat /\ session.failed \in Nat
          /\ session.skipped \in Nat /\ session.cycles \in Nat
      BY <1>4 DEF Session
    <3>. QED  BY <3>1, <3>2 DEF Session
  <2>2. CASE LastCallbackPasses
    <3>1. session' = [executed |-> session.executed + 1, succeeded |-> session.succeeded + 1,
                     failed |-> session.failed, skipped |-> session.skipped,
                     cycles |-> session.cycles + 1]
      BY <1>4, <2>2 DEF LastCallbackPasses, Session
    <3>2. session.executed \in Nat /\ session.succeeded \in Nat /\ session.failed \in Nat
          /\ session.skipped \in Nat /\ session.cycles \in Nat
      BY <1>4 DEF Session
    <3>. QED  BY <3>1, <3>2 DEF Session
  <2>. QED  BY <2>1, <2>2
<1>6. session.executed \in Nat /\ policy.items \in Nat
  BY <1>4, PolicyType DEF LoopInv, ResearchTypeOK, Session
<1>7. policy.items > 0 => session'.executed <= policy.items
  BY <1>1, <1>5, <1>6 DEF LoopInv, BudgetLeft
<1>. HIDE DEF s
<1>. QED  BY <1>1, <1>2, <1>3, <1>5, <1>7, EndOfCycleKeeps

\* New work does not disturb the item that the loop holds.
LEMMA EnqueueKeeps ==
    ASSUME LoopInv, NEW p \in Priorities, NEW limit \in AttemptLimits, Enqueue(p, limit),
           UNCHANGED <<pc, policy, requested, cycle, item, session, status>>
    PROVE  LoopInv'
<1>. DEFINE n == Len(items) + 1
<1>1. ResearchTypeOK
  BY DEF LoopInv
<1>2. /\ items' \in Seq(Item) /\ Len(items') = n /\ Len(items') <= Capacity
      /\ DOMAIN items' = DOMAIN items \cup {n}
      /\ \A k \in DOMAIN items : items'[k] = items[k] /\ executions'[k] = executions[k]
      /\ items'[n].id = n /\ items'[n].state = "pending"
      /\ items'[n].attempts = 0 /\ items'[n].max_attempts > 0
      /\ executions' \in Seq(Nat) /\ Len(executions') = Len(items') /\ executions'[n] = 0
      /\ next_id' = Len(items') + 1
  BY <1>1, EnqueuedItem
<1>3. n \notin DOMAIN items /\ n \in Nat
  BY <1>1 DEF ResearchTypeOK
<1>4. items'[n].max_attempts \in Nat
  <2>1. items'[n] \in Item
    BY <1>2
  <2>. QED  BY <2>1 DEF Item
<1>. HIDE DEF n
<1>5. ResearchTypeOK'
  BY <1>1, <1>2 DEF ResearchTypeOK
<1>6. HoldsItem'
  BY <1>2 DEF LoopInv, HoldsItem, Busy, Callbacks
<1>7. OthersWait'
  BY <1>2 DEF LoopInv, OthersWait, Busy, Callbacks
<1>8. AttemptsCounted'
  <2>. SUFFICES ASSUME NEW k \in DOMAIN items'
                PROVE  /\ executions'[k] <= items'[k].attempts
                       /\ items'[k].attempts <= items'[k].max_attempts
                       /\ pc = "policy" /\ item.id = k => executions'[k] < items'[k].attempts
    BY DEF AttemptsCounted
  <2>1. CASE k \in DOMAIN items
    BY <2>1, <1>2 DEF LoopInv, AttemptsCounted
  <2>2. CASE k = n
    <3>1. ~(pc = "policy" /\ item.id = k)
      BY <2>2, <1>3 DEF LoopInv, HoldsItem, Busy
    <3>. QED  BY <2>2, <3>1, <1>2, <1>4
  <2>. QED  BY <2>1, <2>2, <1>2
<1>9. BudgetLeft'
  BY DEF LoopInv, BudgetLeft, Callbacks
<1>. QED  BY <1>5, <1>6, <1>7, <1>8, <1>9 DEF LoopInv

LEMMA ResetKeeps ==
    ASSUME LoopInv, pc = "idle", Reset,
           UNCHANGED <<pc, policy, requested, cycle, item, status>>
    PROVE  LoopInv'
<1>1. items' = <<>> /\ executions' = <<>> /\ DOMAIN items' = {} /\ next_id' = 1
      /\ session' = NewSession
  BY DEF Reset
<1>2. NewSession \in Session
  BY DEF NewSession, Session
<1>3. ResearchTypeOK'
  BY <1>1, <1>2 DEF LoopInv, ResearchTypeOK
<1>4. HoldsItem' /\ OthersWait' /\ AttemptsCounted'
  BY <1>1 DEF LoopInv, HoldsItem, OthersWait, AttemptsCounted, Busy, Callbacks
<1>5. BudgetLeft'
  <2>1. pc' \notin Callbacks /\ session'.executed = 0 /\ policy' = policy
    BY <1>1 DEF NewSession, Callbacks
  <2>. QED  BY <2>1, PolicyType DEF LoopInv, ResearchTypeOK, BudgetLeft
<1>. QED  BY <1>3, <1>4, <1>5 DEF LoopInv

LEMMA LoopNext == LoopInv /\ [Next]_vars => LoopInv'
<1>. SUFFICES ASSUME LoopInv, [Next]_vars PROVE LoopInv'
  OBVIOUS
<1>1. CASE \E p \in Policies \cup {DefaultPolicy}, n \in CycleRequests : Run(p, n)
  BY <1>1, RunKeeps
<1>2. CASE LoopStep
  BY <1>2, SelectKeeps, ReturnKeeps, SkipKeeps, AcceptKeeps, CallbackKeeps, CycleEndKeeps
     DEF LoopStep
<1>3. CASE Owner
  <2>1. UNCHANGED <<pc, policy, requested, cycle, item, status>>
    BY <1>3 DEF Owner
  <2>2. CASE \E p \in Priorities, n \in AttemptLimits : Enqueue(p, n) /\ UNCHANGED session
    BY <2>1, <2>2, EnqueueKeeps
  <2>3. CASE pc = "idle" /\ Reset
    BY <2>1, <2>3, ResetKeeps
  <2>. QED  BY <1>3, <2>2, <2>3 DEF Owner
<1>4. CASE UNCHANGED vars
  BY <1>4 DEF vars, queue, LoopInv, ResearchTypeOK, HoldsItem, OthersWait, AttemptsCounted,
              BudgetLeft, Busy, Callbacks
<1>. QED  BY <1>1, <1>2, <1>3, <1>4 DEF Next

LEMMA LoopAlways == Spec => []LoopInv
BY LoopInit, LoopNext, PTL DEF Spec

-----------------------------------------------------------------------------
(* Theorems *)

\* Every variable of the loop keeps its range, and ids are positions, so the
\* queue's search by id (NxResearchQueue.c:25) finds the item that was selected.
THEOREM ResearchTypeCorrect == Spec => []ResearchTypeOK
<1>1. LoopInv => ResearchTypeOK
  BY DEF LoopInv
<1>. QED  BY <1>1, LoopAlways, PTL

\* On no path through the loop (NxAutonomousResearchLoop.c:45) is an item left
\* running or left waiting without an attempt.
THEOREM NoItemIsLost == Spec => []NoItemLost
<1>1. LoopInv => NoItemLost
  <2>. SUFFICES ASSUME LoopInv, NEW k \in DOMAIN items
                PROVE  \/ items[k].state = "pending" /\ items[k].attempts < items[k].max_attempts
                       \/ items[k].state = "running" /\ Held(k) /\ items[k] = item
                       \/ items[k].state \in Finished
    BY DEF NoItemLost
  <2>1. items[k].state \in {"pending", "running"} \cup Finished
    BY ItemType DEF LoopInv
  <2>2. CASE items[k].state = "running"
    BY <2>2 DEF LoopInv, OthersWait, HoldsItem, Held, Busy
  <2>3. CASE items[k].state = "pending"
    BY <2>3 DEF LoopInv, OthersWait
  <2>. QED  BY <2>1, <2>2, <2>3
<1>. QED  BY <1>1, LoopAlways, PTL

\* No experiment is executed more often than its max_attempts, over any number
\* of runs, whatever the policies and the budgets.
THEOREM ExecutionsAreBounded == Spec => []ExecutionsBounded
<1>1. LoopInv => ExecutionsBounded
  BY DEF LoopInv, AttemptsCounted, ExecutionsBounded
<1>. QED  BY <1>1, LoopAlways, PTL

\* No run executes more than max_items_per_session (NxResearchPolicy.c:30).
THEOREM BudgetIsHeld == Spec => []BudgetHeld
<1>1. LoopInv => BudgetHeld
  BY DEF LoopInv, BudgetLeft, BudgetHeld
<1>. QED  BY <1>1, LoopAlways, PTL

\* A result is final: once the loop has marked an item completed, failed or
\* skipped, no later run selects, executes or marks it again.
THEOREM ResultsStay == Spec => ResultsAreFinal
<1>. DEFINE Final == items' # <<>> =>
        \A k \in DOMAIN items : items[k].state \in Finished => items'[k] = items[k]
<1>1. ASSUME LoopInv, [Next]_vars
      PROVE  Final
  <2>. SUFFICES ASSUME NEW k \in DOMAIN items, items[k].state \in Finished, items' # <<>>
                PROVE  items'[k] = items[k]
    OBVIOUS
  <2>1. items \in Seq(Item) /\ items[k].state # "running" /\ items[k].state # "pending"
    BY <1>1 DEF LoopInv, ResearchTypeOK, Finished
  <2>2. CASE UNCHANGED items
    BY <2>2
  <2>3. CASE SelectNext
    <3>1. PICK n \in DOMAIN items :
            /\ First(n)
            /\ items' = [items EXCEPT ![n] = [@ EXCEPT !.state = "running",
                                                       !.attempts = NextAttempt(items[n])]]
      BY <2>3 DEF SelectNext
    <3>2. n # k
      BY <3>1, <2>1 DEF First, Selectable
    <3>. QED  BY <3>1, <3>2, <2>1
  <2>4. CASE Stop \/ Skip \/ CallbackFails \/ LastCallbackPasses
    <3>1. pc \in Busy
      BY <2>4 DEF Stop, Skip, CallbackFails, LastCallbackPasses, Busy, Callbacks
    <3>2. item.id # k
      BY <3>1, <2>1, <1>1 DEF LoopInv, HoldsItem
    <3>3. \E s : items' = [items EXCEPT ![item.id].state = s]
      BY <1>1, <2>4, <3>1, MarksItem DEF Stop, Skip, CallbackFails, LastCallbackPasses
    <3>. QED  BY <3>2, <3>3, <2>1
  <2>5. ASSUME NEW p \in Priorities, NEW limit \in AttemptLimits, Enqueue(p, limit)
        PROVE  items'[k] = items[k]
    BY <1>1, <2>5, EnqueuedItem DEF LoopInv
  <2>6. CASE Owner
    <3>1. CASE \E p \in Priorities, limit \in AttemptLimits : Enqueue(p, limit)
      BY <2>5, <3>1
    <3>2. CASE Reset
      BY <3>2 DEF Reset
    <3>. QED  BY <2>6, <3>1, <3>2 DEF Owner
  <2>7. CASE LoopStep
    BY <2>2, <2>3, <2>4, <2>7
       DEF LoopStep, NothingLeft, CyclesDone, Accept, CallbackPasses, queue
  <2>8. CASE \E p \in Policies \cup {DefaultPolicy}, n \in CycleRequests : Run(p, n)
    BY <2>2, <2>8 DEF Run, queue
  <2>9. CASE UNCHANGED vars
    BY <2>2, <2>9 DEF vars, queue
  <2>. QED  BY <1>1, <2>6, <2>7, <2>8, <2>9 DEF Next
<1>2. LoopInv /\ [Next]_vars => [Final]_vars
  BY <1>1
<1>. QED  BY <1>2, LoopAlways, PTL DEF Spec, ResultsAreFinal

-----------------------------------------------------------------------------
(* The counters of the session and the states of the items *)

\* What had a result when the run began still has one.
DoneFinished == \A k \in done : k \in DOMAIN items /\ items[k].state \in Finished

CountInv == LoopInv /\ SessionAgrees /\ DoneFinished

LEMMA NewlyFinite ==
    ASSUME ResearchTypeOK, NEW s
    PROVE  IsFiniteSet(Newly(s)) /\ Cardinality(Newly(s)) \in Nat
<1>1. DOMAIN items = 1 .. Len(items) /\ Len(items) \in Nat
  BY DEF ResearchTypeOK
<1>2. IsFiniteSet(DOMAIN items)
  BY <1>1, FS_Interval
<1>3. Newly(s) \subseteq DOMAIN items
  BY DEF Newly
<1>. QED  BY <1>2, <1>3, FS_Subset, FS_CardinalityType

\* A run that begins, and a queue that is reset, have counted nothing.
LEMMA NothingCounted ==
    ASSUME session' = NewSession, \A s \in Finished : Newly(s)' = {}
    PROVE  SessionAgrees'
<1>1. Cardinality(Newly("completed")') = 0 /\ Cardinality(Newly("skipped")') = 0
      /\ Cardinality(Newly("failed")') = 0
  BY FS_EmptySet DEF Finished
<1>2. session'.executed = 0 /\ session'.succeeded = 0 /\ session'.failed = 0 /\ session'.skipped = 0
  BY DEF NewSession
<1>. QED  BY <1>1, <1>2 DEF SessionAgrees

\* A step that neither gives nor takes a result leaves the counts alone.
LEMMA CountsStay ==
    ASSUME SessionAgrees, DoneFinished, done' = done, session' = session,
           \A k : \A s \in Finished :
              (k \in DOMAIN items' /\ items'[k].state = s) <=> (k \in DOMAIN items /\ items[k].state = s)
    PROVE  SessionAgrees' /\ DoneFinished'
<1>1. \A s \in Finished : Newly(s)' = Newly(s)
  BY DEF Newly
<1>2. Newly("completed")' = Newly("completed") /\ Newly("skipped")' = Newly("skipped")
      /\ Newly("failed")' = Newly("failed")
  BY <1>1 DEF Finished
<1>3. SessionAgrees'
  BY <1>2 DEF SessionAgrees
<1>4. DoneFinished'
  BY DEF DoneFinished
<1>. QED  BY <1>3, <1>4

\* The mark that ends a cycle gives the item of the loop its first result of
\* the run, or leaves it waiting.
LEMMA CountMarked ==
    ASSUME LoopInv, DoneFinished, pc \in Busy, done' = done,
           NEW s \in {"pending"} \cup Finished, items' = [items EXCEPT ![item.id].state = s]
    PROVE  /\ DoneFinished'
           /\ \A t \in Finished :
                 Cardinality(Newly(t)') = IF t = s THEN Cardinality(Newly(t)) + 1 ELSE Cardinality(Newly(t))
<1>1. ResearchTypeOK /\ item.id \in DOMAIN items /\ items[item.id].state = "running"
  BY DEF LoopInv, HoldsItem
<1>2. /\ DOMAIN items' = DOMAIN items /\ items'[item.id].state = s
      /\ \A k \in DOMAIN items \ {item.id} : items'[k] = items[k]
  BY <1>1, MarkedItems
<1>3. item.id \notin done
  BY <1>1 DEF DoneFinished, Finished
<1>4. DoneFinished'
  BY <1>2, <1>3 DEF DoneFinished
<1>5. ASSUME NEW t \in Finished
      PROVE  Cardinality(Newly(t)') = IF t = s THEN Cardinality(Newly(t)) + 1 ELSE Cardinality(Newly(t))
  <2>1. item.id \notin Newly(t)
    BY <1>1 DEF Newly, Finished
  <2>2. CASE t = s
    <3>1. Newly(t)' = Newly(t) \cup {item.id}
      BY <1>1, <1>2, <1>3, <2>2 DEF Newly
    <3>. QED  BY <1>1, <2>1, <2>2, <3>1, NewlyFinite, FS_AddElement
  <2>3. CASE t # s
    <3>1. Newly(t)' = Newly(t)
      BY <1>1, <1>2, <2>1, <2>3 DEF Newly
    <3>. QED  BY <2>3, <3>1
  <2>. QED  BY <2>2, <2>3
<1>. QED  BY <1>4, <1>5

\* The counters are natural numbers.
LEMMA SessionType ==
    ASSUME ResearchTypeOK
    PROVE  /\ session = [executed |-> session.executed, succeeded |-> session.succeeded,
                         failed |-> session.failed, skipped |-> session.skipped,
                         cycles |-> session.cycles]
           /\ session.executed \in Nat /\ session.succeeded \in Nat /\ session.failed \in Nat
           /\ session.skipped \in Nat /\ session.cycles \in Nat
<1>1. session \in Session
  BY DEF ResearchTypeOK
<1>. QED  BY <1>1 DEF Session

LEMMA SkipCounts ==
    ASSUME CountInv, Stop \/ Skip
    PROVE  SessionAgrees' /\ DoneFinished'
<1>1. pc \in Busy /\ done' = done
  BY DEF Stop, Skip, Return, NextCycle, Busy
<1>2. items' = [items EXCEPT ![item.id].state = "skipped"]
  BY <1>1, MarksItem DEF Stop, Skip, CountInv
<1>3. /\ DoneFinished'
      /\ \A t \in Finished : Cardinality(Newly(t)') =
            IF t = "skipped" THEN Cardinality(Newly(t)) + 1 ELSE Cardinality(Newly(t))
  BY <1>1, <1>2, CountMarked DEF CountInv, Finished
<1>4. /\ Cardinality(Newly("skipped")') = Cardinality(Newly("skipped")) + 1
      /\ Cardinality(Newly("completed")') = Cardinality(Newly("completed"))
      /\ Cardinality(Newly("failed")') = Cardinality(Newly("failed"))
  BY <1>3 DEF Finished
<1>5. /\ session'.executed = session.executed /\ session'.succeeded = session.succeeded
      /\ session'.failed = session.failed /\ session'.skipped = session.skipped + 1
  BY SessionType DEF Stop, Skip, CountInv, LoopInv
<1>. QED  BY <1>3, <1>4, <1>5 DEF CountInv, SessionAgrees

\* A callback that fails is counted, whether the item is tried again or not.
LEMMA FailureCounts ==
    ASSUME CountInv, CallbackFails
    PROVE  SessionAgrees' /\ DoneFinished'
<1>. DEFINE s == AfterFailure(item)
<1>1. pc \in Busy /\ done' = done
  BY DEF CallbackFails, NextCycle, Busy
<1>2. items' = [items EXCEPT ![item.id].state = s]
  BY <1>1, MarksItem DEF CallbackFails, CountInv
<1>3. s \in {"pending", "failed"}
  BY DEF AfterFailure
<1>. HIDE DEF s
<1>4. /\ DoneFinished'
      /\ \A t \in Finished : Cardinality(Newly(t)') =
            IF t = s THEN Cardinality(Newly(t)) + 1 ELSE Cardinality(Newly(t))
  BY <1>1, <1>2, <1>3, CountMarked DEF CountInv, Finished
<1>5. /\ Cardinality(Newly("skipped")') = Cardinality(Newly("skipped"))
      /\ Cardinality(Newly("completed")') = Cardinality(Newly("completed"))
      /\ Cardinality(Newly("failed")') \in {Cardinality(Newly("failed")), Cardinality(Newly("failed")) + 1}
  BY <1>3, <1>4 DEF Finished
<1>6. Cardinality(Newly("failed")) \in Nat
  BY NewlyFinite DEF CountInv, LoopInv
<1>7. /\ session'.executed = session.executed + 1 /\ session'.succeeded = session.succeeded
      /\ session'.failed = session.failed + 1 /\ session'.skipped = session.skipped
      /\ session.failed \in Nat /\ session.succeeded \in Nat
  BY SessionType DEF CallbackFails, CountInv, LoopInv
<1>8. session'.failed >= Cardinality(Newly("failed")')
  BY <1>5, <1>6, <1>7 DEF CountInv, SessionAgrees
<1>. QED  BY <1>4, <1>5, <1>7, <1>8 DEF CountInv, SessionAgrees

LEMMA SuccessCounts ==
    ASSUME CountInv, LastCallbackPasses
    PROVE  SessionAgrees' /\ DoneFinished'
<1>1. pc \in Busy /\ done' = done
  BY DEF LastCallbackPasses, NextCycle, Busy, Callbacks
<1>2. items' = [items EXCEPT ![item.id].state = "completed"]
  BY <1>1, MarksItem DEF LastCallbackPasses, CountInv
<1>3. /\ DoneFinished'
      /\ \A t \in Finished : Cardinality(Newly(t)') =
            IF t = "completed" THEN Cardinality(Newly(t)) + 1 ELSE Cardinality(Newly(t))
  BY <1>1, <1>2, CountMarked DEF CountInv, Finished
<1>4. /\ Cardinality(Newly("completed")') = Cardinality(Newly("completed")) + 1
      /\ Cardinality(Newly("skipped")') = Cardinality(Newly("skipped"))
      /\ Cardinality(Newly("failed")') = Cardinality(Newly("failed"))
  BY <1>3 DEF Finished
<1>5. /\ session'.executed = session.executed + 1 /\ session'.succeeded = session.succeeded + 1
      /\ session'.failed = session.failed /\ session'.skipped = session.skipped
      /\ session.failed \in Nat /\ session.succeeded \in Nat
  BY SessionType DEF LastCallbackPasses, CountInv, LoopInv
<1>. QED  BY <1>3, <1>4, <1>5 DEF CountInv, SessionAgrees

LEMMA CountInit == Init => SessionAgrees /\ DoneFinished
<1>. SUFFICES ASSUME Init PROVE SessionAgrees /\ DoneFinished
  OBVIOUS
<1>1. \A s : Newly(s) = {}
  BY DEF Init, Newly
<1>2. /\ Cardinality(Newly("completed")) = 0 /\ Cardinality(Newly("skipped")) = 0
      /\ Cardinality(Newly("failed")) = 0
  BY <1>1, FS_EmptySet
<1>. QED  BY <1>2 DEF Init, SessionAgrees, DoneFinished, NewSession

LEMMA CountNext == CountInv /\ [Next]_vars => SessionAgrees' /\ DoneFinished'
<1>. SUFFICES ASSUME CountInv, [Next]_vars PROVE SessionAgrees' /\ DoneFinished'
  OBVIOUS
<1>1. SessionAgrees /\ DoneFinished /\ LoopInv /\ ResearchTypeOK
  BY DEF CountInv, LoopInv
<1>2. CASE \E p \in Policies \cup {DefaultPolicy}, n \in CycleRequests : Run(p, n)
  <2>1. items' = items /\ session' = NewSession
        /\ done' = {k \in DOMAIN items : items[k].state \in Finished}
    BY <1>2 DEF Run, queue
  <2>2. \A s \in Finished : Newly(s)' = {}
    BY <2>1 DEF Newly
  <2>3. DoneFinished'
    BY <2>1 DEF DoneFinished
  <2>. QED  BY <2>1, <2>2, <2>3, NothingCounted
<1>3. CASE SelectNext
  <2>1. PICK k \in DOMAIN items :
         /\ First(k)
         /\ items' = [items EXCEPT ![k] = [@ EXCEPT !.state = "running", !.attempts = NextAttempt(items[k])]]
    BY <1>3 DEF SelectNext
  <2>2. items[k].state = "pending" /\ items[k] \in Item
    BY <1>1, <2>1, ItemType DEF First, Selectable
  <2>3. items'[k].state = "running" /\ DOMAIN items' = DOMAIN items
        /\ \A n \in DOMAIN items \ {k} : items'[n] = items[n]
    BY <1>1, <2>1, <2>2 DEF Item, ResearchTypeOK
  <2>4. done' = done /\ session' = session
    BY <1>3 DEF SelectNext
  <2>5. \A n : \A s \in Finished :
          (n \in DOMAIN items' /\ items'[n].state = s) <=> (n \in DOMAIN items /\ items[n].state = s)
    BY <2>2, <2>3 DEF Finished
  <2>. QED  BY <1>1, <2>4, <2>5, CountsStay
<1>4. CASE NothingLeft \/ CyclesDone \/ Accept \/ CallbackPasses \/ UNCHANGED vars
  <2>1. items' = items /\ done' = done /\ session' = session
    BY <1>4 DEF NothingLeft, CyclesDone, Accept, CallbackPasses, Return, queue, vars
  <2>. QED  BY <1>1, <2>1, CountsStay
<1>5. CASE Owner
  <2>1. CASE \E p \in Priorities, n \in AttemptLimits :
               Enqueue(p, n) /\ UNCHANGED <<session, done>>
    <3>1. DOMAIN items' = DOMAIN items \cup {Len(items) + 1}
          /\ \A k \in DOMAIN items : items'[k] = items[k]
      BY <1>1, <2>1, EnqueuedItem
    <3>2. items'[Len(items) + 1].state = "pending"
      BY <1>1, <2>1, EnqueuedItem
    <3>3. \A n : \A s \in Finished :
            (n \in DOMAIN items' /\ items'[n].state = s) <=> (n \in DOMAIN items /\ items[n].state = s)
      BY <3>1, <3>2 DEF Finished
    <3>. QED  BY <1>1, <2>1, <3>3, CountsStay
  <2>2. CASE Reset
    <3>1. items' = <<>> /\ session' = NewSession /\ done' = {}
      BY <2>2 DEF Reset
    <3>2. \A s \in Finished : Newly(s)' = {}
      BY <3>1 DEF Newly
    <3>3. DoneFinished'
      BY <3>1 DEF DoneFinished
    <3>. QED  BY <3>1, <3>2, <3>3, NothingCounted
  <2>. QED  BY <1>5, <2>1, <2>2 DEF Owner
<1>6. CASE LoopStep
  BY <1>3, <1>4, <1>6, SkipCounts, FailureCounts, SuccessCounts DEF LoopStep
<1>. QED  BY <1>2, <1>4, <1>5, <1>6 DEF Next

\* The result that Run returns (NxAutonomousResearchLoop.c:45) agrees with what
\* the run did to the queue: each item it completed or skipped is counted once,
\* over retries and follow-up work, and every failed item has a failure counted.
THEOREM SessionIsRight == Spec => []SessionAgrees
<1>1. Init => CountInv
  BY LoopInit, CountInit DEF CountInv
<1>2. CountInv /\ [Next]_vars => CountInv'
  BY LoopNext, CountNext DEF CountInv
<1>3. CountInv => SessionAgrees
  BY DEF CountInv
<1>. QED  BY <1>1, <1>2, <1>3, PTL DEF Spec

-----------------------------------------------------------------------------
(* The scan of the queue *)

LEMMA LeastMember ==
    ASSUME NEW S, S \subseteq Nat, S # {}
    PROVE  \E k \in S : \A n \in S : k <= n
<1>1. PICK k \in S : \A n \in S : ~(<<n, k>> \in OpToRel(<, Nat))
  BY NatLessThanWellFounded, WFMin
<1>2. \A n \in S : ~(n < k)
  BY <1>1 DEF OpToRel
<1>. QED  BY <1>2

\* One round of the loop in SelectNext: the best position after looking at
\* position k, when it was b.
Better(b, k) == IF Selectable(items[k]) /\ (b = 0 \/ Replaces(items[k], items[b])) THEN k ELSE b

\* The best positions of the first m rounds.
IsScan(f, m) == f = [k \in 0 .. m |-> IF k = 0 THEN 0 ELSE Better(f[k - 1], k)]

\* However long the queue, the rounds have a result.
LEMMA ScanExists == \A m \in Nat : \E f : IsScan(f, m)
<1>. DEFINE S == {m \in Nat : ~\E f : IsScan(f, m)}
<1>. SUFFICES ASSUME S # {} PROVE FALSE
  OBVIOUS
<1>1. PICK m \in S : \A n \in S : m <= n
  BY LeastMember
<1>2. CASE m = 0
  <2>. DEFINE f == [k \in 0 .. 0 |-> 0]
  <2>1. f = [k \in 0 .. 0 |-> IF k = 0 THEN 0 ELSE Better(f[k - 1], k)]
    OBVIOUS
  <2>2. IsScan(f, m)
    BY <1>2, <2>1 DEF IsScan
  <2>. QED  BY <2>2
<1>3. CASE m # 0
  <2>1. m \in Nat /\ m - 1 \in Nat /\ m - 1 \notin S
    BY <1>1, <1>3
  <2>2. PICK g : IsScan(g, m - 1)
    BY <2>1
  <2>. DEFINE f == [k \in 0 .. m |-> IF k = m THEN Better(g[m - 1], m) ELSE g[k]]
  <2>3. ASSUME NEW k \in 0 .. m
        PROVE  f[k] = IF k = 0 THEN 0 ELSE Better(f[k - 1], k)
    <3>1. CASE k = m
      <4>1. f[m - 1] = g[m - 1] /\ f[m] = Better(g[m - 1], m)
        BY <2>1
      <4>. QED  BY <3>1, <4>1, <1>3
    <3>2. CASE k # m
      <4>1. k \in 0 .. m - 1 /\ f[k] = g[k]
        BY <2>1, <3>2
      <4>2. g[k] = IF k = 0 THEN 0 ELSE Better(g[k - 1], k)
        BY <2>2, <4>1 DEF IsScan
      <4>3. k # 0 => f[k - 1] = g[k - 1]
        BY <2>1, <4>1
      <4>. QED  BY <4>1, <4>2, <4>3
    <3>. QED  BY <3>1, <3>2
  <2>4. f = [k \in 0 .. m |-> IF k = 0 THEN 0 ELSE Better(f[k - 1], k)]
    <3>1. f = [k \in 0 .. m |-> f[k]]
      OBVIOUS
    <3>. HIDE DEF f
    <3>. QED  BY <2>3, <3>1
  <2>5. IsScan(f, m)
    BY <2>4 DEF IsScan
  <2>. QED  BY <2>5
<1>. QED  BY <1>2, <1>3

LEMMA ScanIsLastRound ==
    ASSUME Len(items) \in Nat
    PROVE  \E f : IsScan(f, Len(items)) /\ Scan = f[Len(items)]
<1>. DEFINE f == CHOOSE g : IsScan(g, Len(items))
<1>1. IsScan(f, Len(items))
  BY ScanExists
<1>2. Scan = f[Len(items)]
  BY DEF Scan, IsScan, Better
<1>. QED  BY <1>1, <1>2

\* The order of selection is total, for ids are different, and transitive.
LEMMA OrderOfItems ==
    ASSUME ResearchTypeOK, NEW k \in DOMAIN items, NEW b \in DOMAIN items, NEW n \in DOMAIN items
    PROVE  /\ k # b => Precedes(items[k], items[b]) \/ Precedes(items[b], items[k])
           /\ Precedes(items[k], items[b]) /\ Precedes(items[b], items[n])
                 => Precedes(items[k], items[n])
<1>1. items[k] \in Item /\ items[b] \in Item /\ items[n] \in Item
      /\ items[k].id = k /\ items[b].id = b /\ items[n].id = n
      /\ k \in Nat /\ b \in Nat /\ n \in Nat
  BY DEF ResearchTypeOK
<1>2. items[k].priority \in Int /\ items[b].priority \in Int /\ items[n].priority \in Int
  BY <1>1 DEF Item
<1>. QED  BY <1>1, <1>2 DEF Precedes

\* What is known after m rounds: b precedes every other item that was looked at
\* and can be selected, or is 0 and there is none.
BestOf(b, m) ==
    /\ b \in 0 .. m
    /\ b = 0 => \A n \in 1 .. m : ~Selectable(items[n])
    /\ b # 0 => /\ Selectable(items[b])
                /\ \A n \in 1 .. m \ {b} :
                      Selectable(items[n]) => Precedes(items[b], items[n])

LEMMA RoundKeepsBest ==
    ASSUME ResearchTypeOK, NEW k \in DOMAIN items, NEW b, BestOf(b, k - 1)
    PROVE  BestOf(Better(b, k), k)
<1>1. Len(items) \in Nat /\ DOMAIN items = 1 .. Len(items) /\ k \in Nat /\ k >= 1
      /\ 1 .. k - 1 \subseteq DOMAIN items /\ 1 .. k = (1 .. k - 1) \cup {k}
      /\ k \notin 1 .. k - 1
  BY DEF ResearchTypeOK
<1>2. b \in 0 .. k - 1 /\ (b # 0 => b \in 1 .. k - 1)
  BY <1>1 DEF BestOf
<1>3. CASE ~Selectable(items[k])
  BY <1>1, <1>2, <1>3 DEF Better, BestOf
<1>4. CASE Selectable(items[k]) /\ b = 0
  BY <1>1, <1>2, <1>4 DEF Better, BestOf
<1>5. CASE Selectable(items[k]) /\ b # 0
  <2>1. b \in DOMAIN items /\ b # k
    BY <1>1, <1>2, <1>5
  <2>2. CASE Precedes(items[k], items[b])
    <3>1. Better(b, k) = k
      BY <1>5, <2>2 DEF Better, Replaces
    <3>2. ASSUME NEW n \in 1 .. k \ {k}, Selectable(items[n])
          PROVE  Precedes(items[k], items[n])
      <4>1. n \in 1 .. k - 1 /\ n \in DOMAIN items
        BY <1>1, <3>2
      <4>2. n = b \/ Precedes(items[b], items[n])
        BY <1>5, <3>2, <4>1 DEF BestOf
      <4>. QED  BY <2>1, <2>2, <4>1, <4>2, OrderOfItems
    <3>. QED  BY <1>1, <1>5, <3>1, <3>2 DEF BestOf
  <2>3. CASE ~Precedes(items[k], items[b])
    <3>1. Better(b, k) = b
      BY <1>5, <2>3 DEF Better, Replaces
    <3>2. Precedes(items[b], items[k])
      BY <2>1, <2>3, OrderOfItems
    <3>3. ASSUME NEW n \in 1 .. k \ {b}, Selectable(items[n])
          PROVE  Precedes(items[b], items[n])
      BY <1>1, <1>5, <3>2, <3>3 DEF BestOf
    <3>. QED  BY <1>1, <1>2, <1>5, <3>1, <3>3 DEF BestOf
  <2>. QED  BY <2>2, <2>3
<1>. QED  BY <1>3, <1>4, <1>5

\* The scan of a queue whose ids are its positions.
LEMMA ScanIsBest ==
    ASSUME ResearchTypeOK
    PROVE  BestOf(Scan, Len(items))
<1>1. Len(items) \in Nat /\ DOMAIN items = 1 .. Len(items)
  BY DEF ResearchTypeOK
<1>2. PICK f : IsScan(f, Len(items)) /\ Scan = f[Len(items)]
  BY <1>1, ScanIsLastRound
<1>3. ASSUME NEW k \in 0 .. Len(items)
      PROVE  f[k] = IF k = 0 THEN 0 ELSE Better(f[k - 1], k)
  BY <1>2 DEF IsScan
<1>. DEFINE S == {m \in 0 .. Len(items) : ~BestOf(f[m], m)}
<1>4. CASE S # {}
  <2>1. S \subseteq Nat
    BY <1>1
  <2>2. PICK m \in S : \A n \in S : m <= n
    BY <1>4, <2>1, LeastMember
  <2>3. CASE m = 0
    <3>1. f[0] = 0
      BY <1>1, <1>3
    <3>2. BestOf(f[0], 0)
      BY <3>1 DEF BestOf
    <3>. QED  BY <2>3, <3>2
  <2>4. CASE m # 0
    <3>1. m \in DOMAIN items /\ m - 1 \in 0 .. Len(items) /\ m - 1 \notin S
      BY <1>1, <2>2, <2>4
    <3>2. BestOf(f[m - 1], m - 1)
      BY <3>1
    <3>3. f[m] = Better(f[m - 1], m)
      BY <1>3, <2>4, <2>2
    <3>. QED  BY <3>1, <3>2, <3>3, RoundKeepsBest
  <2>. QED  BY <2>3, <2>4
<1>5. CASE S = {}
  BY <1>1, <1>2, <1>5
<1>. QED  BY <1>4, <1>5

\* The running best of the scan in SelectNext (NxResearchQueue.c:125) ends at
\* the pending item that precedes all the others, whatever the length of the
\* queue, and at none only if none is pending.
THEOREM SelectionIsFirst == Spec => []ScanFindsFirst
<1>1. LoopInv => ScanFindsFirst
  <2>. SUFFICES ASSUME LoopInv PROVE ScanFindsFirst
    OBVIOUS
  <2>1. ResearchTypeOK /\ Len(items) \in Nat /\ DOMAIN items = 1 .. Len(items)
    BY DEF LoopInv, ResearchTypeOK
  <2>2. BestOf(Scan, Len(items))
    BY <2>1, ScanIsBest
  <2>3. \A k \in DOMAIN items : Selectable(items[k]) <=> items[k].state = "pending"
    BY DEF LoopInv, OthersWait, Selectable
  <2>4. CASE \E k \in DOMAIN items : items[k].state = "pending"
    <3>1. Scan # 0
      BY <2>1, <2>2, <2>3, <2>4 DEF BestOf
    <3>2. Scan \in DOMAIN items /\ First(Scan)
      BY <2>1, <2>2, <3>1 DEF BestOf, First
    <3>. QED  BY <2>4, <3>2 DEF ScanFindsFirst
  <2>5. CASE ~\E k \in DOMAIN items : items[k].state = "pending"
    <3>1. Scan = 0
      BY <2>1, <2>2, <2>3, <2>5 DEF BestOf
    <3>. QED  BY <2>5, <3>1 DEF ScanFindsFirst
  <2>. QED  BY <2>4, <2>5
<1>. QED  BY <1>1, LoopAlways, PTL
=============================================================================
