---------------------------- MODULE MCResearchLab ----------------------------
(***************************************************************************)
(* The instances of MCResearchLoop and MCResearchScheduler.                *)
(***************************************************************************)
EXTENDS ResearchLab, MCResearchLoop, MCResearchScheduler
=============================================================================
