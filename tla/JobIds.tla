------------------------------- MODULE JobIds -------------------------------
(***************************************************************************)
(* The ids of the deployment jobs, which name a job in the installer and   *)
(* its credit hold in the registry (new_job_id in manifest_access.py).     *)
(***************************************************************************)
EXTENDS FiniteSets

CONSTANT Jobs

ASSUME JobsAssumption == IsFiniteSet(Jobs)
=============================================================================
