----------------------------- MODULE MCTracker -----------------------------
(* Instances of Tracker: the steps of the deploy task.                     *)
EXTENDS Tracker

TwoSteps == <<"setup", "extension">>
OneStep == <<"extension">>
=============================================================================
