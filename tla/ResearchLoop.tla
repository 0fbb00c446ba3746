----------------------------- MODULE ResearchLoop -----------------------------
(***************************************************************************)
(* The queue of research work (Source/Research/NxResearchQueue.c), the     *)
(* policy that decides about an item, the counters of a session and the    *)
(* bounded loop NxAutonomousResearchLoop_Run that ties them to the         *)
(* callbacks of its caller.                                                *)
(*                                                                         *)
(* A callback passes or fails; it may also put follow-up work into the     *)
(* queue, which its user_data can reach.  A callback that is NULL is one   *)
(* that always passes.                                                     *)
(***************************************************************************)
EXTENDS Integers, Sequences, FiniteSets

CONSTANTS
    Capacity,      \* of the storage given to Init
    Priorities,    \* priorities items are enqueued with
    AttemptLimits, \* max_attempts that Enqueue is given, 0 included
    Policies,      \* policies Run is given; a NULL policy is DefaultPolicy
    CycleRequests  \* requested_cycles that Run is given

ASSUME ResearchAssumption ==
    /\ Capacity \in Nat \ {0}
    /\ Priorities \subseteq Int
    /\ AttemptLimits \subseteq Nat
    /\ Policies \subseteq [minimum : Int, attempts : Nat, items : Nat]
    /\ CycleRequests \subseteq Nat

VARIABLES
    items,     \* queue->items[0 .. count - 1]
    next_id,   \* of the queue
    pc,        \* what Run does next
    policy,    \* the policy of this run
    requested, \* requested_cycles
    cycle,     \* cycles done
    item,      \* the copy of the selected item
    session,   \* the counters of NxResearchSession
    status,    \* what the last Run returned
    \* history variables: the items that had a result when this run began, and
    \* how often each item's experiment was executed
    done, executions

queue  == <<items, next_id>>
vars   == <<queue, pc, policy, requested, cycle, item, session, status, done, executions>>

Finished  == {"completed", "failed", "skipped"}
Item      == [id : Nat, priority : Int, attempts : Nat, max_attempts : Nat,
              state : {"pending", "running"} \cup Finished]
Session   == [executed : Nat, succeeded : Nat, failed : Nat, skipped : Nat, cycles : Nat]
Callbacks == {"execute", "evidence", "journal", "graph"}

NoItem     == [id |-> 0, priority |-> 0, attempts |-> 0, max_attempts |-> 0, state |-> "pending"]
NewSession == [executed |-> 0, succeeded |-> 0, failed |-> 0, skipped |-> 0, cycles |-> 0]
DefaultPolicy == [minimum |-> 0, attempts |-> 3, items |-> 64]

Init ==
    /\ items = <<>> /\ next_id = 1
    /\ pc = "idle" /\ policy = DefaultPolicy /\ requested = 0 /\ cycle = 0
    /\ item = NoItem /\ session = NewSession /\ status = "none"
    /\ done = {} /\ executions = <<>>

-----------------------------------------------------------------------------
(* NxResearchQueue *)

Room_OffByOne == Len(items) <= Capacity
Room == Len(items) < Capacity

Enqueue(priority, limit) ==
    /\ Room
    /\ items' = Append(items, [id |-> next_id, priority |-> priority, attempts |-> 0,
                               max_attempts |-> IF limit = 0 THEN 1 ELSE limit,
                               state |-> "pending"])
    /\ next_id' = next_id + 1
    /\ executions' = Append(executions, 0)

\* The result of the last run speaks of items that are gone.
Reset ==
    /\ items' = <<>> /\ next_id' = 1 /\ executions' = <<>>
    /\ session' = NewSession /\ done' = {}

\* FindMutable: the position of the first item with that id, 0 if there is none.
Position(id) ==
    LET At == {k \in DOMAIN items : items[k].id = id}
    IN  IF At = {} THEN 0 ELSE CHOOSE k \in At : \A n \in At : k <= n

Selectable_AnyState(i) == i.state # "running" /\ i.attempts < i.max_attempts
Selectable(i) == i.state = "pending" /\ i.attempts < i.max_attempts

\* A higher priority is taken first, then a lower id.
Precedes(i, b) == i.priority > b.priority \/ (i.priority = b.priority /\ i.id < b.id)

\* What SelectNext finds: the selectable item that precedes all the others.
First(k) ==
    /\ Selectable(items[k])
    /\ \A n \in DOMAIN items \ {k} : Selectable(items[n]) => Precedes(items[k], items[n])

\* How it finds it: one scan of the array for the best position so far, 0 when
\* none was found.
Replaces_LastOfEquals(i, best) == i.priority >= best.priority
Replaces(i, best) == Precedes(i, best)
Scan ==
    LET Best[k \in 0 .. Len(items)] ==
          IF k = 0 THEN 0
          ELSE LET b == Best[k - 1]
               IN  IF Selectable(items[k]) /\ (b = 0 \/ Replaces(items[k], items[b]))
                   THEN k ELSE b
    IN  Best[Len(items)]

\* MarkCompleted, MarkFailed and MarkSkipped, whatever the state of the item.
Mark(id, state) ==
    LET k == Position(id)
    IN  items' = IF k = 0 THEN items ELSE [items EXCEPT ![k].state = state]

AfterFailure_Retried(i) == "pending"
AfterFailure(i) == IF i.attempts < i.max_attempts THEN "pending" ELSE "failed"

MarkFailed(id) ==
    LET k == Position(id)
    IN  items' = IF k = 0 THEN items ELSE [items EXCEPT ![k].state = AfterFailure(items[k])]

-----------------------------------------------------------------------------
(* NxResearchPolicy_Evaluate *)

BudgetSpent_OffByOne == policy.items > 0 /\ session.executed > policy.items
BudgetSpent == policy.items > 0 /\ session.executed >= policy.items
Refused ==
    \/ item.priority < policy.minimum
    \/ policy.attempts > 0 /\ item.attempts > policy.attempts

-----------------------------------------------------------------------------
(* NxAutonomousResearchLoop_Run *)

Run(p, n) ==
    /\ pc = "idle"
    /\ pc' = "select" /\ policy' = p /\ requested' = n /\ cycle' = 0
    /\ session' = NewSession
    /\ done' = {k \in DOMAIN items : items[k].state \in Finished}
    /\ UNCHANGED <<queue, item, status, executions>>

Return(result) ==
    /\ pc' = "idle" /\ item' = NoItem /\ status' = result
    /\ UNCHANGED <<policy, requested, cycle, done, executions>>

NextAttempt_Same(i) == i.attempts
NextAttempt(i) == i.attempts + 1

SelectNext ==
    /\ pc = "select" /\ cycle < requested
    /\ \E k \in DOMAIN items :
          /\ First(k)
          /\ items' = [items EXCEPT ![k] = [@ EXCEPT !.state = "running",
                                                    !.attempts = NextAttempt(items[k])]]
          /\ item' = items'[k]
    /\ pc' = "policy"
    /\ UNCHANGED <<next_id, policy, requested, cycle, session, status, done, executions>>

NothingLeft ==
    /\ pc = "select" /\ cycle < requested
    /\ ~\E k \in DOMAIN items : Selectable(items[k])
    /\ Return(IF session.executed = 0 /\ session.skipped = 0 THEN "empty" ELSE "ok")
    /\ UNCHANGED <<queue, session>>

CyclesDone ==
    /\ pc = "select" /\ cycle >= requested
    /\ Return("ok")
    /\ UNCHANGED <<queue, session>>

Stop_Uncounted ==
    /\ pc = "policy" /\ BudgetSpent
    /\ Mark(item.id, "skipped")
    /\ Return("ok")
    /\ UNCHANGED <<next_id, session>>
\* A spent budget drops the item that was selected and ends the run.
Stop ==
    /\ pc = "policy" /\ BudgetSpent
    /\ Mark(item.id, "skipped")
    /\ session' = [session EXCEPT !.skipped = @ + 1]
    /\ Return("ok")
    /\ UNCHANGED next_id

NextCycle ==
    /\ cycle' = cycle + 1 /\ item' = NoItem /\ pc' = "select"
    /\ UNCHANGED <<next_id, policy, requested, status, done>>

Skip_LeftRunning ==
    /\ pc = "policy" /\ ~BudgetSpent /\ Refused
    /\ session' = [session EXCEPT !.skipped = @ + 1, !.cycles = @ + 1]
    /\ NextCycle
    /\ UNCHANGED <<items, executions>>
Skip ==
    /\ pc = "policy" /\ ~BudgetSpent /\ Refused
    /\ Mark(item.id, "skipped")
    /\ session' = [session EXCEPT !.skipped = @ + 1, !.cycles = @ + 1]
    /\ NextCycle
    /\ UNCHANGED executions

\* The item goes to execute_experiment.
Accept ==
    /\ pc = "policy" /\ ~BudgetSpent /\ ~Refused
    /\ pc' = "execute"
    /\ executions' = [executions EXCEPT ![item.id] = @ + 1]
    /\ UNCHANGED <<queue, policy, requested, cycle, item, session, status, done>>

CallbackPasses ==
    /\ pc \in Callbacks \ {"graph"}
    /\ pc' = CASE pc = "execute"  -> "evidence"
               [] pc = "evidence" -> "journal"
               [] pc = "journal"  -> "graph"
    /\ UNCHANGED <<queue, policy, requested, cycle, item, session, status, done, executions>>

CallbackFails ==
    /\ pc \in Callbacks
    /\ MarkFailed(item.id)
    /\ session' = [session EXCEPT !.executed = @ + 1, !.failed = @ + 1, !.cycles = @ + 1]
    /\ NextCycle
    /\ UNCHANGED executions

LastCallbackPasses ==
    /\ pc = "graph"
    /\ Mark(item.id, "completed")
    /\ session' = [session EXCEPT !.executed = @ + 1, !.succeeded = @ + 1, !.cycles = @ + 1]
    /\ NextCycle
    /\ UNCHANGED executions

-----------------------------------------------------------------------------
\* The owner of the queue between two runs, and a callback that adds work.
Owner ==
    /\ pc \in Callbacks \cup {"idle"}
    /\ \/ /\ \E p \in Priorities, n \in AttemptLimits : Enqueue(p, n)
          /\ UNCHANGED <<session, done>>
       \/ pc = "idle" /\ items # <<>> /\ Reset
    /\ UNCHANGED <<pc, policy, requested, cycle, item, status>>

LoopStep ==
    \/ SelectNext \/ NothingLeft \/ CyclesDone \/ Stop \/ Skip \/ Accept
    \/ CallbackPasses \/ CallbackFails \/ LastCallbackPasses

Next ==
    \/ \E p \in Policies \cup {DefaultPolicy}, n \in CycleRequests : Run(p, n)
    \/ LoopStep
    \/ Owner

\* Every callback returns, so a run that has started goes on.
Spec == Init /\ [][Next]_vars /\ WF_vars(LoopStep)

-----------------------------------------------------------------------------
(* Properties *)

\* Every variable keeps its range, and ids are the positions of the items.
ResearchTypeOK ==
    /\ items \in Seq(Item) /\ Len(items) <= Capacity
    /\ next_id = Len(items) + 1
    /\ \A k \in DOMAIN items : items[k].id = k
    /\ pc \in {"idle", "select", "policy"} \cup Callbacks
    /\ policy \in Policies \cup {DefaultPolicy}
    /\ requested \in CycleRequests \cup {0} /\ cycle \in 0 .. requested
    /\ item \in Item /\ session \in Session /\ status \in {"none", "ok", "empty"}
    /\ executions \in Seq(Nat) /\ Len(executions) = Len(items)

Held(k) == pc \in Callbacks \cup {"policy"} /\ item.id = k

\* No work is lost: on every path through the loop, failing callbacks and a
\* spent budget included, an item either waits with an attempt left, is the one
\* the loop holds, or has a result.  A forgotten Mark would leave it running,
\* and no later run would ever select it.
NoItemLost ==
    \A k \in DOMAIN items :
       \/ items[k].state = "pending" /\ items[k].attempts < items[k].max_attempts
       \/ items[k].state = "running" /\ Held(k) /\ items[k] = item
       \/ items[k].state \in Finished

\* However many runs fail or are cut by their budget, an experiment is executed
\* at most max_attempts times.
ExecutionsBounded ==
    \A k \in DOMAIN items :
       executions[k] <= items[k].attempts /\ items[k].attempts <= items[k].max_attempts

\* A run executes no more than max_items_per_session, retries included.
BudgetHeld == policy.items > 0 => session.executed <= policy.items

Newly(state) == {k \in DOMAIN items \ done : items[k].state = state}

\* The result of a run agrees with what it did to the queue, although the two
\* are updated apart and an item may fail before it succeeds or is skipped.
SessionAgrees ==
    /\ session.executed = session.succeeded + session.failed
    /\ session.succeeded = Cardinality(Newly("completed"))
    /\ session.skipped = Cardinality(Newly("skipped"))
    /\ session.failed >= Cardinality(Newly("failed"))

\* SPEC-EPIC-0001-AutonomousLaboratoryFoundation.md:6 "the highest-priority
\* pending item and uses the lowest id as a deterministic tie-breaker": the scan
\* with its running best ends at that item, or at none if none can be selected.
ScanFindsFirst ==
    IF \E k \in DOMAIN items : items[k].state = "pending"
    THEN Scan \in DOMAIN items /\ First(Scan)
    ELSE Scan = 0

\* A result is final: no later run executes or marks the item again.
ResultsAreFinal ==
    [][items' # <<>> =>
          \A k \in DOMAIN items : items[k].state \in Finished => items'[k] = items[k]]_vars

\* If the loop is run again and again, with whatever policy, every item gets a
\* result (unless the queue is reset): retries end, and neither refused items
\* nor callbacks that enqueue more work keep an item waiting for ever.
RunAgain == \E p \in Policies \cup {DefaultPolicy}, n \in CycleRequests \ {0} : Run(p, n)
EveryItemEnds ==
    []<><<RunAgain>>_vars =>
       \A k \in 1 .. Capacity :
          (k \in DOMAIN items) ~> (k \in DOMAIN items => items[k].state \in Finished)
=============================================================================
