--------------------------- MODULE MCOrchestrator ---------------------------
(* The instance of Orchestrator for TLC: two requests in one session, so   *)
(* that they may overlap or follow one another.                            *)
EXTENDS Orchestrator

CONSTANTS c1, c2, s1

OneSession == [c \in {c1, c2} |-> s1]
=============================================================================
