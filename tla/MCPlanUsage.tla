---------------------------- MODULE MCPlanUsage ----------------------------
(* Two requests, two months, caps of two rows and one receipt, a pool of   *)
(* three clients of which another handler may have one.                    *)
EXTENDS PlanUsage, TLC
CONSTANTS r1, r2
MCRequests == {r1, r2}
Symmetry == Permutations(MCRequests)
=============================================================================
