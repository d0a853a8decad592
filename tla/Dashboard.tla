----------------------------- MODULE Dashboard -----------------------------
(***************************************************************************)
(* The page that lists one owner's deployments (my-dashboard,              *)
(* installer-queue.js, realm-destroy-progress.js, realm-destroy-records.js)*)
(*                                                                         *)
(* The jobs are those of JobLife: the page knows nothing of them but the   *)
(* statuses and backends it queried last.  It reloads every ten seconds while a row     *)
(* asks for it, and after what the owner does: retry a failed deployment,  *)
(* remove it, destroy a realm.  Loads overlap with each other and with     *)
(* these calls, and answers come in any order.                             *)
(***************************************************************************)
EXTENDS JobLife, Naturals, FiniteSets

CONSTANTS
    Taken,      \* the statuses that deployments take by themselves
    Settled,    \* those among them that nothing but their owner changes
    Age,        \* Age[j]: jobs are listed newest, and greatest, first
    Name,       \* Name[j]: the name of j's realm
    Backend,    \* Backend[j]: the backend canister that j installs
    Requests,   \* bound: what the owner asks for
    Overlap     \* bound: the loads in flight at once

ASSUME DashboardAssumption ==
    /\ Taken \subseteq LifeStatuses \ {"none", "gone"}
    /\ Settled \subseteq Taken
    /\ Age \in [Jobs -> Nat]
    /\ \A i, j \in Jobs : Age[i] = Age[j] => i = j
    /\ DOMAIN Name = Jobs /\ DOMAIN Backend = Jobs
    /\ Requests \subseteq {"retry", "removal", "destruction"}
    /\ Overlap \in Nat \ {0}

VARIABLES
    backed,      \* the jobs whose record names their backend
    rows,        \* deployments: the rows of the last load that was answered
    loads,       \* loadDeployments in flight
    polling,     \* whether onMount has come to the poller
    retrying,    \* retryingDeploymentId
    deleting,    \* deletingDeploymentId
    destroying,  \* activeDestroys
    teardown,    \* destroy_realm_job in the installer
    records,     \* the cards of destroyed realms, in localStorage
    dismissed    \* those that the owner has removed, likewise

loaded == <<rows, loads, polling>>
asked == <<retrying, deleting>>
destroys == <<destroying, teardown, records, dismissed>>
jobs == <<life, backed>>
dashboardVars == <<jobs, loaded, asked, destroys>>

----------------------------------------------------------------------------
Nobody == "nobody"
Slots == 1 .. Overlap
Unread == << >>
Idle == [why |-> "nothing", list |-> Unread, known |-> {}]
Asked(why) == [why |-> why, list |-> Unread, known |-> {}]
Reasons == {"mount", "tick", "retry", "destroy"}
Listed == LifeStatuses \ {"none", "gone"}
Rows == [Jobs -> Listed \union {"absent"}]
NoRows == [j \in Jobs |-> "absent"]
Failures == {"failed", "failed_verification", "cancelled"}

DashboardTypeOK ==
    /\ life \in [Jobs -> LifeStatuses]
    /\ rows \in Rows
    /\ backed \subseteq Jobs
    /\ loads \in [Slots -> {Idle} \union
                      [why : Reasons, list : {Unread} \union Rows, known : SUBSET Jobs]]
    /\ polling \in BOOLEAN
    /\ {retrying, deleting} \subseteq Jobs \union {Nobody}
    /\ destroying \in [Jobs -> {"no", "calling", "waiting", "failed"}]
    /\ teardown \in [Jobs -> {"none", "running", "destroyed", "refused", "benign"}]
    /\ {records, dismissed} \subseteq SUBSET Jobs

----------------------------------------------------------------------------
(* The rows of a list of jobs.                                             *)

(* deploymentRowPriority.                                                  *)
Priority(s) ==
    CASE s \in LiveStatuses -> 100
      [] s = "completed" -> 50
      [] s \in {"failed", "failed_verification"} -> 20
      [] OTHER -> 10

Precedes(i, j, list) ==
    \/ Priority(list[i]) > Priority(list[j])
    \/ Priority(list[i]) = Priority(list[j]) /\ Age[i] > Age[j]

(* deploymentGroupKey: a job is grouped by its backend once its record     *)
(* names one, and by the name of its realm until then.                     *)
GroupKey(j, known) ==
    IF j \in known THEN <<"backend", Backend[j]>> ELSE <<"name", Name[j]>>

(* The listed jobs of j's group, of a list that knows some of the backends.*)
Group(j, list, known) ==
    {i \in Jobs : list[i] # "absent" /\ GroupKey(i, known) = GroupKey(j, known)}

(* dedupeDeploymentRows: one row for the jobs of a group; the others are   *)
(* only its history.                                                       *)
Deduped(list, known) ==
    [j \in Jobs |->
        IF \E i \in Group(j, list, known) \ {j} : Precedes(i, j, list)
        THEN "absent" ELSE list[j]]

(* Mutant of JobsList: it does not leave out the jobs that are gone.       *)
JobsListWithGone == [j \in Jobs |-> IF life[j] = "none" THEN "absent" ELSE life[j]]

(* list_deployment_jobs, for its owner; one page holds them all.           *)
JobsList == [j \in Jobs |-> IF life[j] \in {"none", "gone"} THEN "absent" ELSE life[j]]

(* Mutant of AsksForMore: a failed deployment is not looked at again.      *)
AsksForActive(r) == \E j \in Jobs : r[j] \in LiveStatuses

AsksForMore(r) == \E j \in Jobs : r[j] \in LiveStatuses \union {"failed"}

(* buildDashboardDeploymentCards: what is shown of a job.                  *)
Card(j) ==
    CASE destroying[j] = "failed" -> "destroy_failed"
      [] destroying[j] \in {"calling", "waiting"} -> "destroying"
      [] destroying[j] = "no" /\ j \in records \ dismissed -> "destroyed"
      [] OTHER -> rows[j]

----------------------------------------------------------------------------
(* Deployments go on by themselves.  A record may name a backend when it is*)
(* made; the pass, or the report, that starts to install there notes it.   *)
JobMoves(j) ==
    /\ life[j] \notin Settled
    /\ \E s \in Taken :
         /\ LifeStep(j, s)
         /\ \/ UNCHANGED backed
            \/ /\ life[j] = "none" \/ s \in {"verifying", "extensions"}
               /\ backed' = backed \union {j}
    /\ UNCHANGED <<loaded, asked, destroys>>

----------------------------------------------------------------------------
(* Loading.                                                                *)

Asks(s, why) ==
    /\ loads[s] = Idle
    /\ loads' = [loads EXCEPT ![s] = Asked(why)]

(* The ticks of the poller.                                                *)
Polls(s) ==
    /\ polling
    /\ AsksForMore(rows)
    /\ Asks(s, "tick")
    /\ UNCHANGED <<jobs, rows, polling, asked, destroys>>

ReadsJobs(s) ==
    /\ loads[s] # Idle
    /\ loads[s].list = Unread
    /\ loads' = [loads EXCEPT ![s].list = JobsList, ![s].known = backed]
    /\ UNCHANGED <<jobs, rows, polling, asked, destroys>>

(* The page starts the poller after its first load; a retry is over when   *)
(* its load is.                                                            *)
LoadEnds(s) ==
    /\ loads' = [loads EXCEPT ![s] = Idle]
    /\ polling' = (polling \/ loads[s].why = "mount")
    /\ retrying' = IF loads[s].why = "retry" THEN Nobody ELSE retrying
    /\ UNCHANGED <<jobs, deleting, destroys>>

ShowsJobs(s) ==
    /\ loads[s].list # Unread
    /\ rows' = Deduped(loads[s].list, loads[s].known)
    /\ LoadEnds(s)

(* Of a load that fails the page keeps what it had.                        *)
LosesLoad(s) ==
    /\ loads[s] # Idle
    /\ UNCHANGED rows
    /\ LoadEnds(s)

(* The page is opened anew; what it was doing is forgotten.                *)
Reload ==
    /\ rows' = NoRows
    /\ loads' = [s \in Slots |-> IF s = 1 THEN Asked("mount") ELSE Idle]
    /\ polling' = FALSE
    /\ retrying' = Nobody /\ deleting' = Nobody
    /\ destroying' = [j \in Jobs |-> "no"]
    /\ UNCHANGED <<jobs, teardown, records, dismissed>>

----------------------------------------------------------------------------
(* The owner retries or removes a failed deployment.  The installer looks  *)
(* at what the job is by now, and its answer may be lost.                  *)

AsksRetry(j) ==
    /\ "retry" \in Requests
    /\ Card(j) \in Failures
    /\ retrying = Nobody
    /\ retrying' = j
    /\ UNCHANGED <<jobs, loaded, deleting, destroys>>

(* Mutant of Retried: the installer trusts the row that the owner saw.     *)
RetriesAsShown(j) == life[j] \notin {"none", "gone"} /\ LifeStep(j, "provisioning")

Retried(j) == life[j] = "failed" /\ LifeStep(j, "provisioning")

AwaitsRetry(j) == retrying = j /\ \A s \in Slots : loads[s].why # "retry"

RetryAccepted(j, s) ==
    /\ AwaitsRetry(j)
    /\ Retried(j)
    /\ Asks(s, "retry")
    /\ UNCHANGED <<backed, rows, polling, asked, destroys>>

RetryFails(j) ==
    /\ AwaitsRetry(j)
    /\ Retried(j) \/ UNCHANGED life
    /\ retrying' = Nobody
    /\ UNCHANGED <<backed, loaded, deleting, destroys>>

ConfirmsDelete(j) ==
    /\ "removal" \in Requests
    /\ Card(j) \in Failures
    /\ deleting = Nobody
    /\ deleting' = j
    /\ UNCHANGED <<jobs, loaded, retrying, destroys>>

Deleted(j) == life[j] \in Failures /\ LifeStep(j, "gone")

(* The row goes; the page is not loaded anew.                              *)
DeleteAccepted(j) ==
    /\ deleting = j
    /\ Deleted(j)
    /\ rows' = [rows EXCEPT ![j] = "absent"]
    /\ deleting' = Nobody
    /\ UNCHANGED <<backed, loads, polling, retrying, destroys>>

DeleteFails(j) ==
    /\ deleting = j
    /\ Deleted(j) \/ UNCHANGED life
    /\ deleting' = Nobody
    /\ UNCHANGED <<backed, loaded, retrying, destroys>>

----------------------------------------------------------------------------
(* The owner destroys the realm of a deployment that succeeded.            *)

(* destroy_realm_job, over its calls of Casals and of the registry.        *)
InstallerDestroys(j) ==
    /\ teardown[j] = "running"
    /\ life[j] = "completed"
    /\ LifeStep(j, "gone")
    /\ teardown' = [teardown EXCEPT ![j] = "destroyed"]
    /\ UNCHANGED <<backed, loaded, asked, destroying, records, dismissed>>

(* The realm is not alpha any more, or one of the calls failed; with some  *)
(* of the errors, as "unknown job_id", the realm may be gone.              *)
InstallerRefuses(j) ==
    /\ teardown[j] = "running"
    /\ \E answer \in {"refused", "benign"} : teardown' = [teardown EXCEPT ![j] = answer]
    /\ UNCHANGED <<jobs, loaded, asked, destroying, records, dismissed>>

(* requestDestroyDeployment and its confirmation, retryDestroyDeployment.  *)
RunsDestroy(j) ==
    /\ "destruction" \in Requests
    /\ Card(j) \in {"completed", "destroy_failed"}
    /\ destroying[j] = "no"
    /\ teardown[j] \in {"none", "running"}
    /\ destroying' = [destroying EXCEPT ![j] = "calling"]
    /\ teardown' = [teardown EXCEPT ![j] = "running"]
    /\ UNCHANGED <<jobs, loaded, asked, records, dismissed>>

(* The card is kept in the browser, and the page loaded.                   *)
Finishes(j, s) ==
    /\ destroying' = [destroying EXCEPT ![j] = "no"]
    /\ records' = records \union {j}
    /\ Asks(s, "destroy")
    /\ UNCHANGED <<jobs, rows, polling, asked, dismissed>>

DestroyReturns(j, s) ==
    /\ destroying[j] = "calling"
    /\ teardown[j] = "destroyed"
    /\ teardown' = [teardown EXCEPT ![j] = "none"]
    /\ Finishes(j, s)

DestroyFails(j) ==
    /\ destroying[j] = "calling"
    /\ teardown[j] = "refused"
    /\ teardown' = [teardown EXCEPT ![j] = "none"]
    /\ destroying' = [destroying EXCEPT ![j] = "failed"]
    /\ UNCHANGED <<jobs, loaded, asked, records, dismissed>>

(* An answer that says nothing for certain, or none: the job is polled.    *)
DestroyIsAmbiguous(j) ==
    /\ destroying[j] = "calling"
    /\ teardown[j] # "refused"
    /\ destroying' = [destroying EXCEPT ![j] = "waiting"]
    /\ teardown' = [teardown EXCEPT ![j] = IF @ = "running" THEN @ ELSE "none"]
    /\ UNCHANGED <<jobs, loaded, asked, records, dismissed>>

(* Mutant of WaitSeesGone: whoever has waited long enough calls it done.   *)
WaitsLongEnough(j, s) ==
    /\ destroying[j] = "waiting"
    /\ UNCHANGED teardown
    /\ Finishes(j, s)

(* waitForRealmDestroy.                                                    *)
WaitSeesGone(j, s) ==
    /\ destroying[j] = "waiting"
    /\ life[j] = "gone"
    /\ UNCHANGED teardown
    /\ Finishes(j, s)

WaitFails(j) ==
    /\ destroying[j] = "waiting"
    /\ destroying' = [destroying EXCEPT ![j] = "failed"]
    /\ UNCHANGED <<jobs, loaded, asked, teardown, records, dismissed>>

(* An answer that nobody waits for any more.                               *)
AnswerDropped(j) ==
    /\ teardown[j] \notin {"none", "running"}
    /\ destroying[j] # "calling"
    /\ teardown' = [teardown EXCEPT ![j] = "none"]
    /\ UNCHANGED <<jobs, loaded, asked, destroying, records, dismissed>>

DismissesCard(j) ==
    /\ Card(j) = "destroyed"
    /\ dismissed' = dismissed \union {j}
    /\ UNCHANGED <<jobs, loaded, asked, destroying, teardown, records>>

----------------------------------------------------------------------------
DashboardInit ==
    /\ LifeInit
    /\ backed = {}
    /\ rows = NoRows
    /\ loads = [s \in Slots |-> IF s = 1 THEN Asked("mount") ELSE Idle]
    /\ polling = FALSE
    /\ retrying = Nobody /\ deleting = Nobody
    /\ destroying = [j \in Jobs |-> "no"]
    /\ teardown = [j \in Jobs |-> "none"]
    /\ records = {} /\ dismissed = {}

OnJob(j) ==
    \/ JobMoves(j)
    \/ AsksRetry(j) \/ RetryFails(j) \/ ConfirmsDelete(j) \/ DeleteAccepted(j) \/ DeleteFails(j)
    \/ InstallerDestroys(j) \/ InstallerRefuses(j) \/ RunsDestroy(j)
    \/ DestroyFails(j) \/ DestroyIsAmbiguous(j) \/ WaitFails(j) \/ AnswerDropped(j)
    \/ DismissesCard(j)
    \/ \E s \in Slots : RetryAccepted(j, s) \/ DestroyReturns(j, s) \/ WaitSeesGone(j, s)

DashboardNext ==
    \/ \E j \in Jobs : OnJob(j)
    \/ \E s \in Slots : Polls(s) \/ ReadsJobs(s) \/ ShowsJobs(s) \/ LosesLoad(s)
    \/ Reload

DashboardSpec == DashboardInit /\ [][DashboardNext]_dashboardVars

(* The interval ticks, queries are answered though some fail, and a        *)
(* teardown comes to its end.                                              *)
DashboardFairness ==
    \A s \in Slots :
      /\ WF_dashboardVars(Polls(s)) /\ SF_dashboardVars(ReadsJobs(s))
      /\ SF_dashboardVars(ShowsJobs(s))

FairDashboardSpec == DashboardSpec /\ DashboardFairness

----------------------------------------------------------------------------
(* Properties.                                                             *)

(* A card says "destroyed" only of a realm that the installer has torn     *)
(* down, whatever was lost on the way: no record of it is left.            *)
DestroyedCardMeansGone ==
    \A j \in Jobs : Card(j) = "destroyed" => life[j] = "gone"

(* A card does not keep showing what is over, though loads overlap, fail   *)
(* or are answered in another order, and other calls of the owner come     *)
(* between: once a job has settled, or its record is gone, the row that it *)
(* has of its own says so in the end.  Unless the page had read of an end  *)
(* that it takes for the last: it polls for failed rows and active ones.   *)
CardsCatchUp ==
    \A j \in Jobs : \A s \in EndedStatuses \union {"gone"} :
      <>[](life[j] = s) => \/ <>[](rows[j] \in {s, "absent"})
                          \/ <>[](rows[j] \in EndedStatuses \ {"failed"})

(* What the owner asks from a row that is out of date does not undo a      *)
(* success: the realm of a completed job goes on as it is until a          *)
(* destruction, asked from a card that said "completed", removes it.       *)
SuccessIsNotUndone ==
    [][\A j \in Jobs :
         life[j] = "completed" /\ life'[j] # "completed" =>
           teardown[j] = "running" /\ life'[j] = "gone"]_dashboardVars
=============================================================================
