---------------------------- MODULE MCPlanRender ----------------------------
(* Instances of PlanRender for TLC.                                        *)
EXTENDS PlanRender, TLC

\* Requests and plans are each treated alike.
Symmetry == Permutations(Req) \cup Permutations(Plan)
=============================================================================
