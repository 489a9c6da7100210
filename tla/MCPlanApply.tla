---------------------------- MODULE MCPlanApply -----------------------------
(* Two processes of one project; inodes are interchangeable.  The second    *)
(* version of the project has the targets of the first, drops one of them,  *)
(* or drops them all; applying the first version's plan by force, they are  *)
(* there again.                                                             *)
EXTENDS PlanApply, TLC

PlanSymmetry == Permutations(Inodes) \cup Permutations(Procs)

Histories == {<<Targets, Targets>>, <<Targets, {1}>>, <<Targets, {}>>}

PlanHistoriesInit == PlanInit /\ outputs \in Histories
PlanHistoriesSpec == PlanHistoriesInit /\ [][PlanNext]_vars
=============================================================================
