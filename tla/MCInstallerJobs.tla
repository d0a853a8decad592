-------------------------- MODULE MCInstallerJobs --------------------------
(* Instances of InstallerJobs: which jobs share a realm, which endpoints   *)
(* are used and which failures happen.                                     *)
EXTENDS InstallerJobs

OneRealm == [j \in Jobs |-> "realm"]

Everybody == {"cancel", "finalize", "report_failure", "retry", "provision", "off_chain"}

AllButTheLock == AllFaults \ {"stale_lock"}
=============================================================================
