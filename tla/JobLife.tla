------------------------------ MODULE JobLife ------------------------------
(***************************************************************************)
(* The life of a deployment job, as the status that anyone can query shows *)
(* it: which status may follow which, whatever the installer is doing      *)
(* inside.  InstallerJobs implements this specification, and the portal's  *)
(* pages are checked against it.                                           *)
(***************************************************************************)
EXTENDS JobIds

VARIABLE life    \* the status of each job; "none" before it exists

EndedStatuses == {"completed", "failed", "failed_verification", "cancelled"}
LiveStatuses == {"pending", "provisioning", "verifying", "extensions", "registering"}
LifeStatuses == {"none", "gone"} \union LiveStatuses \union EndedStatuses

(* The statuses that may precede a status other than itself.  A pass or a  *)
(* runner that was suspended overwrites whatever status it finds, so the   *)
(* phases of the installation may follow anything but "none".  A record    *)
(* that its owner deletes or destroys is gone.                             *)
Before(s) ==
    CASE s = "pending"   -> {"none"}
      [] s = "verifying" -> {"pending"}
      [] s = "cancelled" -> {"pending", "provisioning"}
      [] s \in {"provisioning", "failed"} -> {"none"} \union LiveStatuses \union EndedStatuses
      [] s = "none"      -> {}
      [] s = "gone"      -> EndedStatuses
      [] OTHER -> LiveStatuses \union EndedStatuses

LifeStep(j, s) ==
    /\ life[j] \in Before(s)
    /\ life' = [life EXCEPT ![j] = s]

LifeInit == life = [j \in Jobs |-> "none"]

(* Several jobs may move in one message: the heartbeat and an upgrade look *)
(* at all of them.                                                         *)
LifeNext ==
    /\ life' \in [Jobs -> LifeStatuses]
    /\ \A j \in Jobs : life'[j] # life[j] => life[j] \in Before(life'[j])

LifeSpec == LifeInit /\ [][LifeNext]_life
=============================================================================
