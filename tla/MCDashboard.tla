---------------------------- MODULE MCDashboard ----------------------------
(* An instance of Dashboard: one job, and two loads that may overlap.      *)
EXTENDS Dashboard, TLC
CONSTANT j1

Age1 == j1 :> 1
OneName == [j \in Jobs |-> "realm"]
OneBackend == [j \in Jobs |-> "backend"]
=============================================================================
