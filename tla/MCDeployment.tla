---------------------------- MODULE MCDeployment ----------------------------
(* Instances of Deployment.  Every user starts without credits; a gift or  *)
(* a top-up buys one deployment.                                           *)
EXTENDS Deployment, TLC

OneRealm == [j \in Jobs |-> "realm"]

Nothing == {}
OneDeployment == {1}
OneOrTooMuch == {1, 2}

Closed == {FALSE}
OpenOrClosed == BOOLEAN

Operators == {"cancel", "retry"}
OnlyRetry == {"retry"}
Owners == {"cancel", "retry", "report_failure", "finalize", "provision"}

StepsFail == {"step_fails"}
AllButRejected == AllLosses \ {"settlement_rejected"}

AllButTheBuild == {"casals_error", "step_fails", "runner_dies", "register_fails"}
AllAndRestarts == AllButTheBuild \union {"upgrade"}
AllAtBadMoments ==
    AllButTheBuild \union {"build_fails", "second_kick", "early_heartbeat"}
AllButRestarts == AllFaults \ {"upgrade"}
=============================================================================
