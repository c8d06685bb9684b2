--------------------------- MODULE MCOrchestrator ---------------------------
(* One slot: ticks that finish before the next.  More slots: ticks that overlap. *)
EXTENDS Orchestrator
=============================================================================
