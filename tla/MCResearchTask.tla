--------------------------- MODULE MCResearchTask ---------------------------
(* Instances of ResearchTask for TLC.                                      *)
EXTENDS ResearchTask, TLC

CONSTANTS a, b, q1, q2

ServesAll   == Operations
Races       == {"start", "continue", "dispatch"}
Stalls      == {"cancel", "recover", "register", "dispatch"}
Slots       == Permutations(Requests)
=============================================================================
