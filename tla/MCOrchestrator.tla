--------------------------- MODULE MCOrchestrator ---------------------------
(***************************************************************************)
(* An instance of Orchestrator for TLC: Orchestrator.cfg gives every       *)
(* constant model values.                                                  *)
(***************************************************************************)
EXTENDS Orchestrator
=============================================================================
