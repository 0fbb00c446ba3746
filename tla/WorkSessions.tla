---------------------------- MODULE WorkSessions ----------------------------
(***************************************************************************)
(* Work sessions (NxSessionEngine.c) and plans (NxPlanningEngine.c): one    *)
(* file of events for each session and each plan, and for each kind a       *)
(* pointer file that names the active one.  An operation writes the event   *)
(* file, then the pointer: it may die, or fail to open the second file, in  *)
(* between.  What was appended to a session may be lost without its being   *)
(* told (nx_append_event drops the results of fprintf and fclose), so all   *)
(* that is kept of an event file is that it exists; nothing but the count   *)
(* of its lines is ever read.  The tools are run one after the other.       *)
(***************************************************************************)
EXTENDS Integers

CONSTANTS Names,      \* session names, after nx_safe_name
          Plans,      \* plan ids, after nx_normalize_id
          Steps       \* the steps of a plan, five in the code

ASSUME SessionAssumption == Steps \subseteq Nat /\ "" \notin Names \cup Plans

VARIABLES sessions,       \* the sessions with a file, Sessions/<name>.jsonl
          activeSession,  \* Sessions/active_session.txt, "" when blank or missing
          plans,          \* Plans/<id>.jsonl: the steps it lists and those done
          activePlan,     \* Plans/active_plan.txt
          ended           \* history: sessions whose Close returned OK, not started since

sessionVars == <<sessions, activeSession, plans, activePlan, ended>>

NoPlan == [listed |-> {}, done |-> {}, exists |-> FALSE]

\* A pointer file is truncated, then written in one piece: a crash, or a fopen
\* that fails, leaves the old name or none.
Pointer(old, new) == {old, "", new}

SessionsInit ==
  /\ sessions = {}
  /\ activeSession = ""
  /\ plans = [p \in Plans |-> NoPlan]
  /\ activePlan = ""
  /\ ended = {}

\* nx_append_event returned 1: the file exists, whatever became of the event.
\* When the file cannot be opened the operation returns and nothing has changed.
AppendEvent(s) == sessions' = sessions \cup {s}

------------------------------------------------------------------------------
\* Mutant of StartSession: the pointer is written first.
StartPointerFirst(s) ==
  /\ AppendEvent(s) \/ UNCHANGED sessions
  /\ activeSession' = s
  /\ ended' = ended \ {s}
  /\ UNCHANGED <<plans, activePlan>>

\* Start does not look at the session that is active, nor whether the one it names
\* was closed.
StartSession(s) ==
  /\ AppendEvent(s)
  /\ activeSession' \in Pointer(activeSession, s)
  /\ ended' = ended \ {s}
  /\ UNCHANGED <<plans, activePlan>>

AddNote ==
  /\ activeSession # ""
  /\ AppendEvent(activeSession)
  /\ UNCHANGED <<activeSession, plans, activePlan, ended>>

\* Close appends its event, then blanks the pointer; when it cannot, it returns
\* IO_ERROR and the session stays the active one.
CloseSession ==
  /\ activeSession # ""
  /\ AppendEvent(activeSession)
  /\ activeSession' \in Pointer(activeSession, "")
  /\ ended' = IF activeSession' = "" THEN ended \cup {activeSession} ELSE ended
  /\ UNCHANGED <<plans, activePlan>>

\* Creating a plan again under its id starts it over.  A cut write keeps the
\* first steps and, the process being dead, the old pointer.
CreatePlan(p) ==
  /\ \/ /\ plans' = [plans EXCEPT ![p] = [listed |-> Steps, done |-> {}, exists |-> TRUE]]
        /\ activePlan' \in Pointer(activePlan, p)
     \/ /\ \E n \in Steps : plans' = [plans EXCEPT ![p] =
              [listed |-> {i \in Steps : i < n}, done |-> {}, exists |-> TRUE]]
        /\ UNCHANGED activePlan
  /\ UNCHANGED <<sessions, activeSession, ended>>

\* Only the steps the file lists can be done: an update of another is skipped
\* by the reader.
CompleteStep(i) ==
  /\ activePlan # ""
  /\ LET plan == plans[activePlan]
     IN plans' = [plans EXCEPT ![activePlan] =
                    [listed |-> plan.listed, done |-> plan.done \cup ({i} \cap plan.listed),
                     exists |-> TRUE]]
  /\ UNCHANGED <<sessions, activeSession, activePlan, ended>>

SessionsNext ==
  \/ \E s \in Names : StartSession(s)
  \/ AddNote \/ CloseSession
  \/ \E p \in Plans : CreatePlan(p)
  \/ \E i \in Steps : CompleteStep(i)

SessionsSpec == SessionsInit /\ [][SessionsNext]_sessionVars

------------------------------------------------------------------------------
SessionsTypeOK ==
  /\ sessions \subseteq Names
  /\ activeSession \in Names \cup {""}
  /\ plans \in [Plans -> [listed: SUBSET Steps, done: SUBSET Steps, exists: BOOLEAN]]
  /\ activePlan \in Plans \cup {""}
  /\ ended \subseteq Names

(***************************************************************************)
(* A pointer names work that was opened, wherever an operation ends between *)
(* its two files: the active session has a file and is not one that Close   *)
(* ended, until it is started again (NxSessionEngineTests.c:35 "status      *)
(* should not find active session after close"), so that no note lands in   *)
(* an ended session; the active plan is one whose file exists.              *)
(***************************************************************************)
ActiveIsOpen ==
  /\ activeSession # "" => activeSession \in sessions \ ended
  /\ activePlan # "" => plans[activePlan].exists
=============================================================================
