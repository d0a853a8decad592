--------------------------- MODULE MCDeployTasks ---------------------------
(* Instances of DeployTasks: what is installed, and what may fail.         *)
EXTENDS DeployTasks

NoPackage == <<>>
OneExtension == <<"vault">>
OneCodex == <<"agora">>

AllButHaste == AllTaskFaults \ {"hasty_resume"}
=============================================================================
