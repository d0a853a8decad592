--------------------------- MODULE InstallerJobs ---------------------------
(***************************************************************************)
(* The job queue of the realm installer (realm_installer/main.py,          *)
(* provision_kick.py, deploy_resume.py): a deployment job from             *)
(* enqueue_deployment to a terminal status.                                *)
(*                                                                         *)
(* A canister runs one message at a time and gives way at every await, so  *)
(* a handler is one action per segment between awaits, and whatever runs   *)
(* meanwhile may have changed the job when the next segment resumes.  The  *)
(* suspended segments and the armed timers of a job are counted in its     *)
(* record; segments of the same kind are interchangeable.                  *)
(***************************************************************************)
EXTENDS Naturals, JobIds

CONSTANTS
    Realm,              \* the realm of each job: the backend its task targets
    ProvisionViaCasals, \* InstallerConfig.provision_via_casals
    Interventions,      \* which endpoints callers use besides enqueue_deployment
    Faults,             \* which external failures may happen
    MaxKicks,           \* bound on armed provision kicks of a job
    MaxPasses,          \* bound on suspended provisioning passes of a job
    MaxRunners,         \* bound on step runners, registrations and reports
    MaxSettle           \* bound on settlements of one outcome in progress

AllInterventions == {"cancel", "finalize", "report_failure", "retry", "provision",
                     "off_chain"}
AllFaults == {"casals_error", "build_fails", "stale_lock", "second_kick",
              "early_heartbeat", "step_fails", "runner_dies",
              "mismatch", "register_fails", "upgrade"}

ASSUME InstallerAssumption ==
    /\ DOMAIN Realm = Jobs
    /\ ProvisionViaCasals \in BOOLEAN
    /\ Interventions \subseteq AllInterventions
    /\ Faults \subseteq AllFaults
    /\ {MaxKicks, MaxPasses, MaxRunners, MaxSettle} \subseteq Nat

VARIABLE job    \* the job records, with what is armed or suspended for each

----------------------------------------------------------------------------
(* The record of a job.                                                    *)

Terminal == {"completed", "failed", "failed_verification", "cancelled"}
Statuses == {"none", "pending", "provisioning", "verifying", "extensions",
             "registering"} \union Terminal

Counters(K) == [K -> Nat]
PassPhases == {"declaring", "reading", "bootstrap"}
Legs == {"armed", "running"}
(* A stopped build is "stalled" when a required member is missing, and     *)
(* "broken" when all are installed but the build did not finish.           *)
StandStates == {"undeclared", "building", "built", "stalled", "broken"}
ReportPhases == {"ready", "frontend", "deps"}
(* A task is "queued" or "waiting" while no step of it has completed.  One *)
(* that has got further is "active", also when it is queued again, or      *)
(* "held", when it waits.                                                  *)
TaskStates == {"none", "queued", "active", "waiting", "held", "ended"}
Outcomes == {"succeeded", "failed"}

JobRecord ==
    [status       : Statuses,
     lock         : {"free", "fresh", "stale"},  \* provision_active_at, by age
     kicks        : Nat,                         \* armed provision kicks
     pass         : Counters(PassPhases),        \* suspended provisioning passes
     stand        : StandStates,                 \* the realm's stand at Casals
     task         : TaskStates,                  \* its deploy task
     runner       : Counters(Legs),              \* step runners
     registration : Counters(Legs),              \* registration callbacks
     report       : Counters(ReportPhases),      \* suspended report handlers
     settle       : Counters(Outcomes),          \* armed settlement timers
     calling      : Counters(Outcomes),          \* settlements awaiting the registry
     notified     : BOOLEAN]                     \* settlement_notified

NoJob ==
    [status |-> "none", lock |-> "free", kicks |-> 0,
     pass |-> [p \in PassPhases |-> 0], stand |-> "undeclared", task |-> "none",
     runner |-> [l \in Legs |-> 0], registration |-> [l \in Legs |-> 0],
     report |-> [p \in ReportPhases |-> 0], settle |-> [o \in Outcomes |-> 0],
     calling |-> [o \in Outcomes |-> 0], notified |-> FALSE]

TypeOK == job \in [Jobs -> JobRecord]

Passes(r) == r.pass["declaring"] + r.pass["reading"] + r.pass["bootstrap"]
Reports(r) == r.report["ready"] + r.report["frontend"] + r.report["deps"]

InBounds(r) ==
    /\ r.kicks <= MaxKicks
    /\ Passes(r) <= MaxPasses
    /\ r.runner["armed"] + r.runner["running"] <= MaxRunners
    /\ r.registration["armed"] + r.registration["running"] <= MaxRunners
    /\ Reports(r) <= MaxRunners
    /\ \A o \in Outcomes : r.settle[o] <= MaxSettle /\ r.calling[o] <= MaxSettle

Becomes(j, r) ==
    /\ InBounds(r)
    /\ job' = [job EXCEPT ![j] = r]

----------------------------------------------------------------------------
(* What the handlers have in common, as functions from record to record.   *)

ArmSettlement(r, o) == [r EXCEPT !.settle[o] = @ + 1]

(* _fail_job, and the handlers that spell it out: no look at the status.   *)
FailJob(r) == ArmSettlement([r EXCEPT !.status = "failed"], "failed")

(* _mark_provision_failed and its like: only a job that is not terminal.   *)
MarkFailed(r) == IF r.status \in Terminal \union {"none"} THEN r ELSE FailJob(r)

Kickable(r) == r.status \in {"pending", "provisioning"}

(* A task as it stands when a new runner is armed for it.                  *)
Resumed(r, t) == [r EXCEPT !.task = t, !.runner["armed"] = @ + 1]

(* _resume_deploy_task, for a job whose task exists: the task is queued    *)
(* again, whatever it was.                                                 *)
Requeued(r) ==
    {Resumed(r, t) : t \in CASE r.task \in {"queued", "waiting"} -> {"queued"}
                            [] r.task = "held" -> {"active"}
                            [] OTHER -> {"queued", "active"}}

(* _carry_over_completed_steps: a new task of job j may take over what     *)
(* another task of its realm has completed.                                *)
MayCarryOver(j) ==
    \E k \in Jobs \ {j} :
        Realm[k] = Realm[j] /\ job[k].task \in {"active", "held", "ended"}

NewTask(r, j) ==
    {Resumed(r, t) : t \in IF MayCarryOver(j) THEN {"queued", "active"} ELSE {"queued"}}

(* The end of a provisioning pass, by return or by exception, clears the   *)
(* lock, whoever holds it now.                                             *)
LeavePass(r, p) == [r EXCEPT !.pass[p] = @ - 1, !.lock = "free"]

----------------------------------------------------------------------------
(* enqueue_deployment, once its cycles preflight has answered.             *)

Enqueued(s) == [NoJob EXCEPT !.status = s]

EnqueueRejected(j) ==
    /\ ProvisionViaCasals
    /\ job[j].status = "none"
    /\ Becomes(j, ArmSettlement(Enqueued("failed"), "failed"))

EnqueueCasals(j) ==
    /\ job[j].status = "none"
    /\ Becomes(j, [Enqueued("provisioning") EXCEPT
                     !.kicks = IF ProvisionViaCasals THEN 1 ELSE 0])

EnqueueOffChain(j) ==
    /\ "off_chain" \in Interventions
    /\ job[j].status = "none"
    /\ Becomes(j, Enqueued("pending"))

----------------------------------------------------------------------------
(* A provisioning pass: _provision_via_casals_gen up to its first await.   *)

CanStartPass(r) == ProvisionViaCasals /\ Kickable(r) /\ r.lock # "fresh"

(* Mutant of PassStarted: the lock is claimed after the first await.       *)
PassStartsUnlocked(r) ==
    IF r.task = "none"
    THEN {[r EXCEPT !.pass["declaring"] = @ + 1]}
    ELSE Requeued([r EXCEPT !.lock = "free", !.status = "extensions"])

(* The lock is claimed before the first await.  A job whose task exists    *)
(* resumes it at once and releases the lock again.                         *)
PassStarted(r) ==
    IF r.task = "none"
    THEN {[r EXCEPT !.lock = "fresh", !.pass["declaring"] = @ + 1]}
    ELSE Requeued([r EXCEPT !.lock = "free", !.status = "extensions"])

PassRefused(r) == ~ ProvisionViaCasals \/ ~ Kickable(r)

(* A kick timer fires.  Finding the lock fresh is skipped; any other       *)
(* refusal is an exception, and the runner marks the job failed.           *)
KickStarts(j) ==
    /\ job[j].kicks > 0
    /\ CanStartPass(job[j])
    /\ \E r \in PassStarted([job[j] EXCEPT !.kicks = @ - 1]) : Becomes(j, r)

KickSkips(j) ==
    /\ job[j].kicks > 0
    /\ ~ PassRefused(job[j])
    /\ job[j].lock = "fresh"
    /\ Becomes(j, [job[j] EXCEPT !.kicks = @ - 1])

KickFails(j) ==
    /\ job[j].kicks > 0
    /\ PassRefused(job[j])
    /\ Becomes(j, MarkFailed([job[j] EXCEPT !.kicks = @ - 1]))

(* The endpoint runs the same pass for a controller or the registry.       *)
ProvisionEndpoint(j) ==
    /\ "provision" \in Interventions
    /\ job[j].status # "none"
    /\ \/ CanStartPass(job[j]) /\ \E r \in PassStarted(job[j]) : Becomes(j, r)
       \/ PassRefused(job[j]) /\ Becomes(j, MarkFailed(job[j]))

(* The rest of the pass, from await to await.  Nothing looks at the job's  *)
(* status again.  stand_create re-arms a stopped build.                    *)
PassDeclares(j) ==
    /\ job[j].pass["declaring"] > 0
    /\ Becomes(j, [job[j] EXCEPT
                     !.pass["declaring"] = @ - 1, !.pass["reading"] = @ + 1,
                     !.stand = IF @ = "built" THEN @ ELSE "building"])

(* A Casals call, or the cycles preflight of an undeclared stand, fails.   *)
PassRaises(j) ==
    /\ "casals_error" \in Faults
    /\ \E p \in {"declaring", "reading"} :
         /\ job[j].pass[p] > 0
         /\ Becomes(j, MarkFailed(LeavePass(job[j], p)))

(* The stand is being built, or a required member is missing: the build's  *)
(* error is looked at only when none is.                                   *)
PassWaits(j) ==
    /\ job[j].pass["reading"] > 0
    /\ job[j].stand \in {"building", "stalled"}
    /\ Becomes(j, LeavePass([job[j] EXCEPT !.status = "provisioning", !.kicks = @ + 1],
                            "reading"))

(* The build gate failed, or the stand belongs to another requester.       *)
PassFindsBroken(j) ==
    /\ job[j].pass["reading"] > 0
    /\ job[j].stand = "broken"
    /\ Becomes(j, LeavePass(FailJob(job[j]), "reading"))

PassFindsBuilt(j) ==
    /\ job[j].pass["reading"] > 0
    /\ job[j].stand = "built"
    /\ LET r == [job[j] EXCEPT !.status = "extensions"] IN
       IF r.task = "none"
       THEN Becomes(j, [r EXCEPT !.pass["reading"] = @ - 1, !.pass["bootstrap"] = @ + 1])
       ELSE \E q \in Requeued(r) : Becomes(j, LeavePass(q, "reading"))

(* Mutant of PassBuildsTask: it does not wait for the dependencies.        *)
BuildsTaskUnasked(j) ==
    Becomes(j, LeavePass(Resumed(job[j], "queued"), "bootstrap"))

(* The package dependencies are known: a fresh task is built, in place of  *)
(* one that a concurrent pass may have left, or its creation fails.        *)
PassBuildsTask(j) ==
    /\ job[j].pass["bootstrap"] > 0
    /\ \/ \E r \in NewTask(job[j], j) : Becomes(j, LeavePass(r, "bootstrap"))
       \/ /\ "step_fails" \in Faults
          /\ Becomes(j, LeavePass(FailJob(job[j]), "bootstrap"))

(* A pass outlives PROVISION_ACTIVE_STALE_S; an upgrade can leave the lock *)
(* of a pass that no longer exists, and then time alone frees it.          *)
LockGoesStale(j) ==
    /\ job[j].lock = "fresh"
    /\ Passes(job[j]) > 0 => "stale_lock" \in Faults
    /\ Becomes(j, [job[j] EXCEPT !.lock = "stale"])

(* The conductor builds a declared stand, or gives up on it.               *)
ConductorBuilds(j) ==
    /\ job[j].stand = "building"
    /\ \/ Becomes(j, [job[j] EXCEPT !.stand = "built"])
       \/ /\ "build_fails" \in Faults
          /\ \E s \in {"stalled", "broken"} : Becomes(j, [job[j] EXCEPT !.stand = s])

----------------------------------------------------------------------------
(* The deploy task and its step runners.                                   *)

RunnerStarts(j) ==
    /\ job[j].runner["armed"] > 0
    /\ LET r == [job[j] EXCEPT !.runner["armed"] = @ - 1] IN
       IF r.task = "ended"
       THEN Becomes(j, r)
       ELSE Becomes(j, [r EXCEPT !.task = "active", !.runner["running"] = @ + 1])

(* A step failed in a way worth retrying: a new runner is armed.           *)
RunnerRetries(j) ==
    /\ "step_fails" \in Faults
    /\ job[j].runner["running"] > 0
    /\ Becomes(j, [job[j] EXCEPT !.runner["running"] = @ - 1, !.runner["armed"] = @ + 1])

(* No step is pending: _finalize_task and _check_job_after_extensions.     *)
(* The loop does not look at the task's status again, nor does the check   *)
(* look at the job's.                                                      *)
RunnerFinishes(j) ==
    /\ job[j].runner["running"] > 0
    /\ LET r == [job[j] EXCEPT !.runner["running"] = @ - 1, !.task = "ended"] IN
       \/ Becomes(j, [r EXCEPT !.status = "registering", !.registration["armed"] = @ + 1])
       \/ "step_fails" \in Faults /\ Becomes(j, FailJob(r))

(* An exception ends the runner: it fails the task and leaves the job to   *)
(* the heartbeat.                                                          *)
RunnerDies(j) ==
    /\ "runner_dies" \in Faults
    /\ job[j].runner["running"] > 0
    /\ Becomes(j, [job[j] EXCEPT !.runner["running"] = @ - 1, !.task = "ended"])

----------------------------------------------------------------------------
(* schedule_registration.                                                  *)

RegistrationStarts(j) ==
    /\ job[j].registration["armed"] > 0
    /\ LET r == [job[j] EXCEPT !.registration["armed"] = @ - 1] IN
       IF r.status \in Terminal
       THEN Becomes(j, r)
       ELSE Becomes(j, [r EXCEPT !.registration["running"] = @ + 1])

(* Mutant of RegistrationEnds: the last failed attempt is only logged.     *)
RegistrationGivesUp(j) ==
    /\ job[j].registration["running"] > 0
    /\ LET r == [job[j] EXCEPT !.registration["running"] = @ - 1] IN
       \/ Becomes(j, ArmSettlement([r EXCEPT !.status = "completed"], "succeeded"))
       \/ "register_fails" \in Faults /\ Becomes(j, r)

(* The registry answered: the job is completed whatever its status is now. *)
RegistrationEnds(j) ==
    /\ job[j].registration["running"] > 0
    /\ LET r == [job[j] EXCEPT !.registration["running"] = @ - 1] IN
       \/ Becomes(j, ArmSettlement([r EXCEPT !.status = "completed"], "succeeded"))
       \/ "register_fails" \in Faults /\ Becomes(j, MarkFailed(r))

----------------------------------------------------------------------------
(* schedule_registry_settlement.  The callback looks at the flag when it   *)
(* starts and sets it when the registry has answered, whatever the answer. *)

SettlementFires(j, o) ==
    /\ job[j].settle[o] > 0
    /\ LET r == [job[j] EXCEPT !.settle[o] = @ - 1] IN
       IF r.notified
       THEN Becomes(j, r)
       ELSE Becomes(j, [r EXCEPT !.calling[o] = @ + 1])

SettlementReturns(j, o) ==
    /\ job[j].calling[o] > 0
    /\ Becomes(j, [job[j] EXCEPT !.calling[o] = @ - 1, !.notified = TRUE])

----------------------------------------------------------------------------
(* The off-chain deployer's reports.                                       *)

VerificationFails(r) ==
    ArmSettlement([r EXCEPT !.status = "failed_verification"], "failed")

ReportCanisterReady(j) ==
    /\ "off_chain" \in Interventions
    /\ job[j].status = "pending"
    /\ Becomes(j, [job[j] EXCEPT !.status = "verifying", !.report["ready"] = @ + 1])

CanisterStatusRead(j) ==
    /\ job[j].report["ready"] > 0
    /\ LET r == [job[j] EXCEPT !.report["ready"] = @ - 1] IN
       \/ Becomes(j, r)
       \/ "mismatch" \in Faults /\ Becomes(j, VerificationFails(r))

ReportFrontendVerified(j) ==
    /\ "off_chain" \in Interventions
    /\ job[j].status \notin Terminal \union {"none"}
    /\ Becomes(j, [job[j] EXCEPT !.report["frontend"] = @ + 1])

FrontendStatusRead(j) ==
    /\ job[j].report["frontend"] > 0
    /\ LET r == [job[j] EXCEPT !.report["frontend"] = @ - 1]
           e == [r EXCEPT !.status = "extensions"] IN
       \/ "mismatch" \in Faults /\ Becomes(j, VerificationFails(r))
       \/ e.task = "none" /\ Becomes(j, [e EXCEPT !.report["deps"] = @ + 1])
       \/ e.task # "none" /\ \E q \in Requeued(e) : Becomes(j, q)
       \/ "step_fails" \in Faults /\ e.task = "none" /\ Becomes(j, e)

ReportBuildsTask(j) ==
    /\ job[j].report["deps"] > 0
    /\ LET r == [job[j] EXCEPT !.report["deps"] = @ - 1] IN
       \/ \E q \in NewTask(r, j) : Becomes(j, q)
       \/ "step_fails" \in Faults /\ Becomes(j, FailJob(r))

----------------------------------------------------------------------------
(* Operator and owner endpoints.                                           *)

(* cancel_deployment: a terminal job is left alone, and a job past         *)
(* provisioning is refused.                                                *)
Cancelled(r) ==
    IF Kickable(r) THEN ArmSettlement([r EXCEPT !.status = "cancelled"], "failed") ELSE r

(* Mutant of CancelDeployment: a job past provisioning is cancelled too.   *)
CancelsLate(j) ==
    /\ job[j].status \notin Terminal \union {"none"}
    /\ Becomes(j, ArmSettlement([job[j] EXCEPT !.status = "cancelled"], "failed"))

CancelDeployment(j) ==
    /\ Kickable(job[j])
    /\ Becomes(j, Cancelled(job[j]))

FinalizeDeployment(j) ==
    /\ "finalize" \in Interventions
    /\ job[j].status # "none"
    /\ Becomes(j, ArmSettlement([job[j] EXCEPT !.status = "completed"], "succeeded"))

ReportDeploymentFailure(j) ==
    /\ "report_failure" \in Interventions
    /\ job[j].status \notin Terminal \union {"none"}
    /\ Becomes(j, FailJob(job[j]))

(* Mutant of RetryDeployment: a completed job may be retried too.          *)
RetriesCompleted(j) ==
    /\ "retry" \in Interventions
    /\ job[j].status \in {"failed", "completed"}
    /\ Becomes(j, [job[j] EXCEPT !.status = "provisioning", !.kicks = @ + 1])

RetryDeployment(j) ==
    /\ "retry" \in Interventions
    /\ job[j].status = "failed"
    /\ Becomes(j, [job[j] EXCEPT !.status = "provisioning", !.kicks = @ + 1])

----------------------------------------------------------------------------
(* The heartbeat re-kicks every job that waits for provisioning, then      *)
(* fails the jobs stranded in "extensions".  A job is old enough for that  *)
(* 30 minutes after it was created, whatever it has done since.            *)
(*                                                                         *)
(* It sees neither the re-check that a waiting pass has armed nor the      *)
(* runner armed for a queued task.  Without the fault "second_kick" or     *)
(* "early_heartbeat" it happens never to tick at such a moment.            *)

Rekicked(r) ==
    IF /\ ProvisionViaCasals /\ Kickable(r) /\ r.lock # "fresh"
       /\ r.kicks < MaxKicks
       /\ r.kicks > 0 => "second_kick" \in Faults
    THEN [r EXCEPT !.kicks = @ + 1] ELSE r

(* Mutant of Stranded: a task that has ended counts as progress.           *)
StrandedWithoutTask(r) ==
    /\ r.status = "extensions"
    /\ r.lock # "fresh"
    /\ r.task \in {"none", "queued", "waiting"}
    /\ r.runner["armed"] > 0 => "early_heartbeat" \in Faults

(* extensions_stall_reason: no task, one that never started, or one that   *)
(* has ended.                                                              *)
Stranded(r) ==
    /\ r.status = "extensions"
    /\ r.lock # "fresh"
    /\ r.task \in {"none", "queued", "waiting", "ended"}
    /\ r.runner["armed"] > 0 => "early_heartbeat" \in Faults

Reconciled(r, old) == IF old /\ Stranded(r) THEN FailJob(r) ELSE r

Heartbeat ==
    \E old \in SUBSET Jobs :
      LET ticked == [j \in Jobs |-> Reconciled(Rekicked(job[j]), j \in old)] IN
      /\ ticked # job
      /\ \A j \in Jobs : InBounds(ticked[j])
      /\ job' = ticked

(* What an upgrade keeps of a job: every timer and every suspended call is *)
(* dropped, and the lock of a pass that died stays until it is stale.      *)
Stored(r) == [NoJob EXCEPT !.status = r.status, !.lock = r.lock, !.stand = r.stand,
                           !.task = r.task, !.notified = r.notified]

(* Mutant of AfterUpgrade: only the tasks that never started get a runner. *)
AfterForgetfulUpgrade(r, head, untouched) ==
    IF head /\ r.task \in {"queued", "waiting"} THEN Resumed(Stored(r), "queued")
    ELSE Stored(r)

(* The task at the head of its realm's group is queued again, with its     *)
(* running steps pending; the others of the group wait, and nothing but a  *)
(* resume or another upgrade queues them.  An active task that is          *)
(* untouched has not completed a step yet.                                 *)
AfterUpgrade(r, head, untouched) ==
    LET begun == r.task = "held" \/ (r.task = "active" /\ ~ untouched) IN
    CASE r.task \in {"none", "ended"} -> Stored(r)
      [] r.task \notin {"none", "ended"} /\ head ->
             Resumed(Stored(r), IF begun THEN "active" ELSE "queued")
      [] OTHER -> [Stored(r) EXCEPT !.task = IF begun THEN "held" ELSE "waiting"]

(* _resume_in_flight picks one unfinished task of each realm, one that is  *)
(* queued or running if there is any.  Start times decide which; here it   *)
(* is any of them.                                                         *)
InTask(states) == {j \in Jobs : job[j].task \in states}
Driven == InTask({"queued", "active"})
Waiting == {j \in InTask({"waiting", "held"}) : \A k \in Driven : Realm[k] # Realm[j]}

OneOfEachRealm(heads) ==
    /\ \A j \in Driven \union Waiting : \E h \in heads : Realm[h] = Realm[j]
    /\ \A g, h \in heads : Realm[g] = Realm[h] => g = h

Upgrade ==
    /\ "upgrade" \in Faults
    /\ \E heads \in SUBSET (Driven \union Waiting), untouched \in SUBSET Jobs :
         /\ OneOfEachRealm(heads)
         /\ job' = [j \in Jobs |-> AfterUpgrade(job[j], j \in heads, j \in untouched)]

----------------------------------------------------------------------------
Enqueue(j) == EnqueueRejected(j) \/ EnqueueCasals(j) \/ EnqueueOffChain(j)

Kick(j) == KickStarts(j) \/ KickSkips(j) \/ KickFails(j)

PassResumes(j) ==
    PassDeclares(j) \/ PassRaises(j) \/ PassWaits(j) \/ PassFindsBroken(j)
    \/ PassFindsBuilt(j) \/ PassBuildsTask(j)

Runner(j) == RunnerStarts(j) \/ RunnerRetries(j) \/ RunnerFinishes(j) \/ RunnerDies(j)

Registration(j) == RegistrationStarts(j) \/ RegistrationEnds(j)

ReportResumes(j) == CanisterStatusRead(j) \/ FrontendStatusRead(j) \/ ReportBuildsTask(j)

Intervention(j) ==
    \/ ProvisionEndpoint(j) \/ ReportCanisterReady(j) \/ ReportFrontendVerified(j)
    \/ "cancel" \in Interventions /\ CancelDeployment(j)
    \/ FinalizeDeployment(j) \/ ReportDeploymentFailure(j) \/ RetryDeployment(j)

JobStep(j) ==
    Kick(j) \/ PassResumes(j) \/ LockGoesStale(j) \/ ConductorBuilds(j) \/ Runner(j)
    \/ Registration(j) \/ ReportResumes(j) \/ Intervention(j)

Init == job = [j \in Jobs |-> NoJob]

Next ==
    \/ \E j \in Jobs : Enqueue(j) \/ JobStep(j)
    \/ \E j \in Jobs, o \in Outcomes : SettlementFires(j, o) \/ SettlementReturns(j, o)
    \/ Heartbeat
    \/ Upgrade

Spec == Init /\ [][Next]_job

----------------------------------------------------------------------------
(* Properties.                                                             *)

(* The lock does what it is for: while no pass outlives its staleness      *)
(* limit, at most one pass per job talks to Casals, however kicks, the     *)
(* heartbeat, the endpoint, retries and upgrades interleave, and the pass  *)
(* that runs is the one that holds the lock.                               *)
OnePassHoldsTheLock ==
    \A j \in Jobs : Passes(job[j]) > 0 => Passes(job[j]) = 1 /\ job[j].lock = "fresh"

(* A deploy task that is queued or under way has a step runner: passes,    *)
(* resumes, retries, reports and runners that die may come in any order.   *)
(* An upgrade takes the runner from a task of a realm that has another one *)
(* under way, and must say so: such a task waits.                          *)
UnfinishedTaskHasRunner ==
    \A j \in Jobs : job[j].task \in {"queued", "active"} =>
        job[j].runner["armed"] + job[j].runner["running"] > 0

(* A job in its last phase has a registration on its way.  Nothing else    *)
(* moves a registering job: neither a kick nor the heartbeat.              *)
RegisteringIsDriven ==
    \A j \in Jobs : job[j].status = "registering" =>
        job[j].registration["armed"] + job[j].registration["running"] > 0

(* A completed job stays completed: nothing that was still on its way      *)
(* (kicks, a task, a registration) takes the realm's job back.             *)
CompletedIsFinal ==
    [][\A j \in Jobs : job[j].status = "completed" => job'[j].status = "completed"]_job

----------------------------------------------------------------------------
(* Fairness: timers fire, suspended calls are answered, the heartbeat      *)
(* ticks for ever, and Casals finishes with a declared stand one way or    *)
(* the other.  A runner retries a step a bounded number of times.          *)
Fairness ==
    /\ WF_job(Heartbeat)
    /\ \A j \in Jobs :
         /\ WF_job(Kick(j))
         /\ WF_job(PassDeclares(j)) /\ WF_job(PassBuildsTask(j))
         /\ WF_job(PassFindsBroken(j) \/ PassFindsBuilt(j)) /\ WF_job(PassWaits(j))
         /\ WF_job(ConductorBuilds(j)) /\ WF_job(LockGoesStale(j))
         /\ WF_job(RunnerStarts(j)) /\ SF_job(RunnerFinishes(j))
         /\ WF_job(Registration(j)) /\ WF_job(ReportResumes(j))
         /\ \A o \in Outcomes :
              WF_job(SettlementFires(j, o)) /\ WF_job(SettlementReturns(j, o))

(* Every job that was enqueued is eventually, and for good, terminal, also *)
(* when passes fail, runners die and the heartbeat kicks or fails it at a  *)
(* bad moment.  The exception: every re-check re-arms a stopped build       *)
(* before it looks at it, so a job whose build stops again and again may   *)
(* wait for ever.                                                          *)
BuildStopped(j) ==
    job[j].status = "provisioning" /\ job[j].stand \in {"stalled", "broken"}

EveryJobEnds ==
    \A j \in Jobs :
        \/ []<> BuildStopped(j)
        \/ job[j].status # "none" ~> [](job[j].status \in Terminal)

----------------------------------------------------------------------------
(* What a query shows of all this is a life of each job: no handler, in no *)
(* order, takes a job back to "pending" or out of existence, verifies one  *)
(* that is not pending, or cancels one past provisioning.                  *)
Life == INSTANCE JobLife WITH life <- [j \in Jobs |-> job[j].status]

ImplementsLife == Life!LifeSpec
=============================================================================
