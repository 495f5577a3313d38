-------------------------- MODULE MCResearchLedger --------------------------
(* Instance of ResearchLedger: two processes, two decisions and one outcome, *)
(* five calls, one mishap.  No symmetry, which a liveness property forbids.  *)
EXTENDS ResearchLedger

=============================================================================
