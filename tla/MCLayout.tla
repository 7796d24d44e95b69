------------------------------ MODULE MCLayout ------------------------------
(* Small graphs for the planner of node_modules. *)
EXTENDS Layout, SmallGraphs
=============================================================================
