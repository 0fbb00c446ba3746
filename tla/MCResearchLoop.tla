--------------------------- MODULE MCResearchLoop ---------------------------
(***************************************************************************)
(* A strict policy (priority 1 and up, one attempt, one execution a run)   *)
(* next to the default one.                                                *)
(***************************************************************************)
EXTENDS ResearchLoop

Strict == [minimum |-> 1, attempts |-> 1, items |-> 1]
MCPolicies == {Strict}
=============================================================================
