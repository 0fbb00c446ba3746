---------------------------- MODULE MCNcosTools ----------------------------
(***************************************************************************)
(* Two proposals under one run id, a plan of three tasks, two sessions, one *)
(* plan of two steps, a workspace of three files, one of them unsafe, and   *)
(* the goals of MCGoalGraph.                                                *)
(***************************************************************************)
EXTENDS NcosTools, MCGoalGraph

MCRunIds    == {"r1"}
MCProposals == {"p1", "p2"}
MCNames     == {"s1", "s2"}
MCPlans     == {"plan1"}
MCFiles     == {"f1", "f2", "f3"}
MCUnsafe    == {"f3"}
=============================================================================
