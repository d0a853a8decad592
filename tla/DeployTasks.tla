---------------------------- MODULE DeployTasks ----------------------------
(***************************************************************************)
(* The deploy tasks of one realm (realm_installer/main.py,                 *)
(* deploy_resume.py), step by step: what InstallerJobs has as one "active" *)
(* task.  A task sets the realm up by a list of calls to it; a step runner *)
(* makes one after the other and gives way at each.  Runners live in       *)
(* timers and suspended calls, so an upgrade loses them and keeps the      *)
(* records; the realm keeps what was done to it, whoever knows of it.      *)
(*                                                                         *)
(* Jobs are deployments of the same realm by its owner: a name asked for   *)
(* twice gives two jobs, two tasks and one stand.                          *)
(***************************************************************************)
EXTENDS Naturals, Sequences, FiniteSets

CONSTANTS
    Jobs,          \* the deployments of the realm
    RealmsGos,     \* uses_realms_bootstrap: Realms GOS, or Monad GOS
    HasPair,       \* backend and frontend canister are known
    Extensions,    \* the extensions to install, in order
    Codices,       \* the codices to install, in order
    Faults,        \* which external failures may happen
    Flaky,         \* the kinds of steps whose calls may fail to reach the realm
    MaxRetries,    \* _MAX_RETRIES
    MaxRunners,    \* bound on the runners of one task
    MaxFilings,    \* bound on the registrations of one job under way
    MaxUpgrades    \* bound on upgrades of the installer

AllTaskFaults == {"refused", "build_fails", "runner_dies",
                  "register_fails", "reported", "hasty_resume"}

ASSUME DeployTasksAssumption ==
    /\ {RealmsGos, HasPair} \subseteq BOOLEAN
    /\ Extensions \in Seq(STRING) /\ Codices \in Seq(STRING)
    /\ Faults \subseteq AllTaskFaults
    /\ {MaxRetries, MaxRunners, MaxFilings, MaxUpgrades} \subseteq Nat

VARIABLES
    job,       \* the status of each job, as far as its task matters
    task,      \* the DeployTask of each job, with its steps
    retried,   \* _retry_counts, in memory
    runner,    \* the runners of each task
    filing,    \* the registrations of each job, armed or suspended
    realm,     \* what was done to the realm
    upgrades   \* how often the installer was upgraded

vars == <<job, task, retried, runner, filing, realm, upgrades>>

----------------------------------------------------------------------------
(* _build_steps.  A step is known by its kind and its label.               *)

Bootstrap(kinds) == [i \in 1..Len(kinds) |-> [kind |-> kinds[i], label |-> kinds[i]]]
Packages(kind, ids) == [i \in 1..Len(ids) |-> [kind |-> kind, label |-> ids[i]]]

Steps ==
    Bootstrap(IF RealmsGos THEN <<"setup_install", "founder_admin">> ELSE <<"enter_setup">>)
    \o Bootstrap(IF RealmsGos /\ HasPair
                 THEN <<"setup_infrastructure", "grant_frontend_access">> ELSE <<>>)
    \o Packages("extension", Extensions)
    \o Packages("codex", Codices)

Idx == 1..Len(Steps)

BootstrapStepKinds == {"enter_setup", "setup_install", "founder_admin",
                       "setup_infrastructure", "grant_frontend_access", "codex"}

(* Kinds that the realm does once, and whose second rejection the          *)
(* installer recognizes: step_already_satisfied.                           *)
DoneOnce == {"enter_setup", "setup_install", "founder_admin", "codex"}

IsBootstrap(i) == Steps[i].kind \in BootstrapStepKinds

----------------------------------------------------------------------------
TerminalTask == {"completed", "partial", "failed"}
TaskStatuses == {"none", "queued", "running", "waiting"} \union TerminalTask
StepStatuses == {"pending", "running", "completed", "failed"}
JobStatuses == {"provisioning", "extensions", "registering", "completed", "failed"}
Slots == 1..MaxRunners

(* A runner is armed, to start at once or to retry a step after a delay;   *)
(* or it is suspended in its step: a query of the realm's stage, a call    *)
(* the realm has not run, or a call that has been answered.                *)
Answers == {"done", "already", "refused", "unreachable"}
RunnerPhases == {"idle", "armed", "delayed", "checking", "asking"} \union Answers
Idle == [phase |-> "idle", at |-> 0]
Armed == [phase |-> "armed", at |-> 0]
Delayed == [phase |-> "delayed", at |-> 0]

Fresh == [i \in Idx |-> "pending"]
NoTask == [status |-> "none", step |-> Fresh]

DeployTasksTypeOK ==
    /\ job \in [Jobs -> JobStatuses]
    /\ task \in [Jobs -> [status : TaskStatuses, step : [Idx -> StepStatuses]]]
    /\ retried \in [Jobs -> [Idx -> 0..MaxRetries]]
    /\ runner \in [Jobs -> [Slots -> [phase : RunnerPhases, at : {0} \union Idx]]]
    /\ filing \in [Jobs -> 0..MaxFilings]
    /\ realm \in [has : SUBSET {Steps[i] : i \in Idx}, named : BOOLEAN, launched : BOOLEAN]
    /\ upgrades \in 0..MaxUpgrades

NoneDue(j) == \A k \in Slots : runner[j][k].phase # "armed"
InFlight(j) == {k \in Slots : runner[j][k].phase # "idle"}
With(s, status) == {i \in Idx : s[i] = status}

----------------------------------------------------------------------------
(* A pass of a job that is being provisioned, once its stand is built.     *)

Arm(j) ==
    \E k \in Slots :
        /\ runner[j][k] = Idle
        /\ runner' = [runner EXCEPT ![j][k] = Armed]

(* best_owned_task: among the realm's other tasks, one that got furthest.  *)
Furthest(j) ==
    LET done(o) == Cardinality(With(task[o].step, "completed"))
        others == {o \in Jobs \ {j} : task[o].status # "none"}
    IN  {o \in others : \A p \in others : done(p) <= done(o)}

(* Mutant of CarriedOver: every step that the prior task began.            *)
CarriesBegun(prior) == {i \in Idx : prior[i] # "pending"}

(* _carry_over_completed_steps                                             *)
CarriedOver(prior) == {i \in Idx : prior[i] = "completed"}

Kept(done) == [i \in Idx |-> IF i \in done THEN "completed" ELSE "pending"]

(* _start_extensions_for_job, when there is nothing to resume.             *)
Build(j) ==
    /\ job[j] = "provisioning"
    /\ task[j].status = "none"
    /\ \/ /\ \/ /\ Furthest(j) = {}
                /\ task' = [task EXCEPT ![j] = [status |-> "queued", step |-> Fresh]]
             \/ \E o \in Furthest(j) :
                  task' = [task EXCEPT ![j] =
                      [status |-> "queued", step |-> Kept(CarriedOver(task[o].step))]]
          /\ job' = [job EXCEPT ![j] = "extensions"]
          /\ Arm(j)
       \/ /\ "build_fails" \in Faults
          /\ job' = [job EXCEPT ![j] = "failed"]
          /\ UNCHANGED <<task, runner>>
    /\ UNCHANGED <<retried, filing, realm, upgrades>>

(* Mutant of StepsToReset: a second pass starts from step zero.            *)
ResetsEveryStep(s, stale) == Idx \ (With(s, "running") \ stale)

(* steps_to_reset, for the running steps that are older than               *)
(* STALE_RUNNING_S.                                                        *)
StepsToReset(s, stale) == With(s, "failed") \union (With(s, "running") \intersect stale)

(* _resume_deploy_task.  A runner whose timer has no delay has started by  *)
(* then.  Unless "hasty_resume" may happen, the pass comes after the last  *)
(* runner has ended, and later than 15 minutes after that.                 *)
Resume(j) ==
    /\ job[j] = "provisioning"
    /\ task[j].status # "none"
    /\ NoneDue(j)
    /\ "hasty_resume" \notin Faults => InFlight(j) = {}
    /\ \E stale \in SUBSET With(task[j].step, "running") :
         /\ "hasty_resume" \notin Faults => stale = With(task[j].step, "running")
         /\ LET reset == StepsToReset(task[j].step, stale) IN
            task' = [task EXCEPT ![j] =
                [status |-> "queued",
                 step |-> [i \in Idx |-> IF i \in reset THEN "pending" ELSE @.step[i]]]]
    /\ job' = [job EXCEPT ![j] = "extensions"]
    /\ Arm(j)
    /\ UNCHANGED <<retried, filing, realm, upgrades>>

----------------------------------------------------------------------------
(* _schedule_step_runner and its loop.                                     *)

(* _finalize_task                                                          *)
Verdict(s) ==
    CASE With(s, "completed") = Idx -> "completed"
      [] With(s, "completed") # Idx /\ With(s, "failed") = Idx -> "failed"
      [] OTHER -> "partial"

(* Mutant of BrokenBootstrap: one of the kinds is missing from the list.   *)
BreaksWithoutAdmin(s) ==
    \E i \in With(s, "failed") : IsBootstrap(i) /\ Steps[i].kind # "founder_admin"

(* failed_bootstrap_step_kinds                                             *)
BrokenBootstrap(s) == \E i \in With(s, "failed") : IsBootstrap(i)

(* _check_job_after_extensions                                             *)
JobAfter(s) ==
    IF Verdict(s) \in {"completed", "partial"} /\ ~ BrokenBootstrap(s)
    THEN "registering" ELSE "failed"

(* schedule_registration                                                   *)
Files(j, s) ==
    /\ JobAfter(s) = "registering" => filing[j] < MaxFilings
    /\ filing' = [filing EXCEPT ![j] = IF JobAfter(s) = "registering" THEN @ + 1 ELSE @]

(* What the step asks the realm first: its stage, before it makes an admin.*)
FirstCall(i) == IF Steps[i].kind = "founder_admin" THEN "checking" ELSE "asking"

(* The runner goes on from the steps s: to the first pending one, which it *)
(* marks as running before it asks the realm, or to the end of the task.   *)
Proceeds(j, k, status, s) ==
    LET pending == With(s, "pending") IN
    IF pending = {}
    THEN /\ task' = [task EXCEPT ![j] = [status |-> Verdict(s), step |-> s]]
         /\ job' = [job EXCEPT ![j] = JobAfter(s)]
         /\ Files(j, s)
         /\ runner' = [runner EXCEPT ![j][k] = Idle]
    ELSE \E next \in pending :
         /\ \A i \in pending : next <= i
         /\ task' = [task EXCEPT ![j] = [status |-> status,
                                         step |-> [s EXCEPT ![next] = "running"]]]
         /\ runner' = [runner EXCEPT ![j][k] = [phase |-> FirstCall(next), at |-> next]]
         /\ UNCHANGED <<job, filing>>

RunnerStarts(j, k) ==
    /\ runner[j][k].phase \in {"armed", "delayed"}
    /\ IF task[j].status \in TerminalTask
       THEN runner' = [runner EXCEPT ![j][k] = Idle] /\ UNCHANGED <<job, task, filing>>
       ELSE Proceeds(j, k, IF task[j].status = "queued" THEN "running" ELSE task[j].status,
                     task[j].step)
    /\ UNCHANGED <<retried, realm, upgrades>>

Answered(j, k, answer) ==
    runner' = [runner EXCEPT ![j][k].phase = answer]

(* _setup_stage_problem: no admin is assigned on a realm that launched.    *)
StageIsRead(j, k) ==
    /\ runner[j][k].phase = "checking"
    /\ \/ Answered(j, k, IF realm.launched THEN "refused" ELSE "asking")
       \/ "founder_admin" \in Flaky /\ Answered(j, k, "unreachable")
    /\ UNCHANGED <<job, task, retried, filing, realm, upgrades>>

(* The realm runs the step's call, refuses it, or is not reached.          *)
RealmRuns(j, k) ==
    /\ runner[j][k].phase = "asking"
    /\ LET step == Steps[runner[j][k].at] IN
       \/ /\ step.kind \in DoneOnce /\ step \in realm.has
          /\ Answered(j, k, "already")
          /\ UNCHANGED realm
       \/ /\ step.kind \in DoneOnce => step \notin realm.has
          /\ Answered(j, k, "done")
          /\ realm' = [realm EXCEPT !.has = @ \union {step}]
       \/ /\ \/ "refused" \in Faults /\ Answered(j, k, "refused")
             \/ step.kind \in Flaky /\ Answered(j, k, "unreachable")
          /\ UNCHANGED realm
    /\ UNCHANGED <<job, task, retried, filing, upgrades>>

(* _finish_realm_step                                                      *)
StepStatus(answer) == IF answer \in {"done", "already"} THEN "completed" ELSE "failed"

(* Mutant of MayRetry: one retry more than _MAX_RETRIES.                   *)
MayRetryOnceMore(answer, count) == answer = "unreachable" /\ count <= MaxRetries

(* _RETRYABLE_PATTERNS and _MAX_RETRIES; an upgrade starts the counts anew.*)
MayRetry(answer, count) == answer = "unreachable" /\ count < MaxRetries

(* A failure worth retrying is asked again by another runner, later.       *)
RunnerResumes(j, k) ==
    LET i == runner[j][k].at
        answer == runner[j][k].phase
        Recorded(status) == [task[j].step EXCEPT ![i] = status]
    IN
    /\ answer \in Answers
    /\ IF MayRetry(answer, retried[j][i])
       THEN /\ task' = [task EXCEPT ![j].step = Recorded("pending")]
            /\ retried' = [retried EXCEPT ![j][i] = @ + 1]
            /\ runner' = [runner EXCEPT ![j][k] = Delayed]
            /\ UNCHANGED <<job, filing>>
       ELSE /\ Proceeds(j, k, task[j].status, Recorded(StepStatus(answer)))
            /\ UNCHANGED retried
    /\ UNCHANGED <<realm, upgrades>>

(* An exception ends the runner: the task has failed, the job has not.     *)
RunnerDies(j, k) ==
    /\ "runner_dies" \in Faults
    /\ runner[j][k].phase \in {"armed", "delayed"} \union Answers
    /\ runner' = [runner EXCEPT ![j][k] = Idle]
    /\ task' = [task EXCEPT ![j].status = IF @ \in TerminalTask THEN @ ELSE "failed"]
    /\ UNCHANGED <<job, retried, filing, realm, upgrades>>

----------------------------------------------------------------------------
(* A registration names the realm, then registers it.  It does nothing if  *)
(* the job has ended before it starts; once under way it completes the job *)
(* whatever became of it, while its failure leaves an ended job alone.     *)
Register(j) ==
    /\ filing[j] > 0
    /\ filing' = [filing EXCEPT ![j] = @ - 1]
    /\ \/ job' = [job EXCEPT ![j] = "completed"] /\ realm' = [realm EXCEPT !.named = TRUE]
       \/ job[j] \in {"completed", "failed"} /\ UNCHANGED <<job, realm>>
       \/ /\ "register_fails" \in Faults
          /\ job' = [job EXCEPT ![j] = IF @ = "completed" THEN @ ELSE "failed"]
          /\ \E named \in {realm.named, TRUE} : realm' = [realm EXCEPT !.named = named]
    /\ UNCHANGED <<task, retried, runner, upgrades>>

(* The founder launches a realm that has a founder and a name.             *)
Launch ==
    /\ realm.named
    /\ \E step \in realm.has : step.kind \in {"setup_install", "enter_setup"}
    /\ realm' = [realm EXCEPT !.launched = TRUE]
    /\ UNCHANGED <<job, task, retried, runner, filing, upgrades>>

(* extensions_stall_reason, and the heartbeat that fails such a job.       *)
Stalled(j) ==
    \/ task[j].status \in TerminalTask
    \/ task[j].status \in {"queued", "waiting"} /\ With(task[j].step, "completed") = {}

Reconcile(j) ==
    /\ job[j] = "extensions"
    /\ Stalled(j)
    /\ job' = [job EXCEPT ![j] = "failed"]
    /\ UNCHANGED <<task, retried, runner, filing, realm, upgrades>>

(* report_deployment_failure, or a kick that finds the job gone on.        *)
FailFromOutside(j) ==
    /\ "reported" \in Faults
    /\ job[j] \in {"provisioning", "extensions", "registering"}
    /\ job' = [job EXCEPT ![j] = "failed"]
    /\ UNCHANGED <<task, retried, runner, filing, realm, upgrades>>

(* Its owner has seen the failure, and what was due by then is done.       *)
RetryDeployment(j) ==
    /\ job[j] = "failed"
    /\ NoneDue(j)
    /\ job' = [job EXCEPT ![j] = "provisioning"]
    /\ UNCHANGED <<task, retried, runner, filing, realm, upgrades>>

(* _resume_in_flight, after an upgrade has dropped the timers and the      *)
(* suspended calls.  Of the realm's unfinished tasks one is driven again,  *)
(* the others wait.  Start times decide which; here it is any that was not *)
(* waiting, if there is one.                                               *)
Unfinished(statuses) == {j \in Jobs : task[j].status \in statuses}
Driven == Unfinished({"queued", "running"})
Heads == IF Driven # {} THEN Driven ELSE Unfinished({"waiting"})

Again(s) == [i \in Idx |-> IF s[i] = "running" THEN "pending" ELSE s[i]]

(* Mutant of AfterUpgrade: the tasks behind the head are not set waiting.  *)
AfterSilentUpgrade(j, head) ==
    IF j = head THEN [status |-> "queued", step |-> Again(task[j].step)] ELSE task[j]

AfterUpgrade(j, head) ==
    CASE j = head -> [status |-> "queued", step |-> Again(task[j].step)]
      [] j # head /\ j \in Driven -> [status |-> "waiting", step |-> task[j].step]
      [] OTHER -> task[j]

ResumeInFlight ==
    IF Heads = {}
    THEN runner' = [j \in Jobs |-> [k \in Slots |-> Idle]] /\ UNCHANGED task
    ELSE \E head \in Heads :
         /\ runner' = [j \in Jobs |-> [k \in Slots |->
                          IF j = head /\ k = 1 THEN Armed ELSE Idle]]
         /\ task' = [j \in Jobs |-> AfterUpgrade(j, head)]

(* The realm may have run the calls that were on their way.                *)
Upgrade ==
    /\ upgrades < MaxUpgrades
    /\ upgrades' = upgrades + 1
    /\ \E ran \in SUBSET {p \in Jobs \X Slots : runner[p[1]][p[2]].phase = "asking"} :
         realm' = [realm EXCEPT !.has = @ \union {Steps[runner[p[1]][p[2]].at] : p \in ran}]
    /\ retried' = [j \in Jobs |-> [i \in Idx |-> 0]]
    /\ filing' = [j \in Jobs |-> 0]
    /\ ResumeInFlight
    /\ UNCHANGED job

----------------------------------------------------------------------------
DeployTasksInit ==
    /\ job = [j \in Jobs |-> "provisioning"]
    /\ task = [j \in Jobs |-> NoTask]
    /\ retried = [j \in Jobs |-> [i \in Idx |-> 0]]
    /\ runner = [j \in Jobs |-> [k \in Slots |-> Idle]]
    /\ filing = [j \in Jobs |-> 0]
    /\ realm = [has |-> {}, named |-> FALSE, launched |-> FALSE]
    /\ upgrades = 0

RunnerStep(j, k) ==
    RunnerStarts(j, k) \/ StageIsRead(j, k) \/ RealmRuns(j, k) \/ RunnerResumes(j, k)

DeployTasksNext ==
    \/ \E j \in Jobs : \/ Build(j) \/ Resume(j)
                       \/ Register(j) \/ Reconcile(j)
                       \/ FailFromOutside(j) \/ RetryDeployment(j)
    \/ \E j \in Jobs, k \in Slots : RunnerStep(j, k) \/ RunnerDies(j, k)
    \/ Launch
    \/ Upgrade

DeployTasksSpec == DeployTasksInit /\ [][DeployTasksNext]_vars

----------------------------------------------------------------------------
(* Properties.                                                             *)

(* What the records say was done to the realm was done to it: through      *)
(* retries, upgrades, steps that an earlier pass did and steps that        *)
(* another task of the realm did.                                          *)
RecordIsTrue ==
    \A j \in Jobs : \A i \in With(task[j].step, "completed") : Steps[i] \in realm.has

(* A task that is queued or under way has a runner, though resumes come    *)
(* between runners that end, wait or die, and an upgrade takes the runners *)
(* of all the tasks of the realm: those that get none again are set        *)
(* waiting.                                                                *)
TaskHasRunner ==
    \A j \in Jobs : task[j].status \in {"queued", "running"} => InFlight(j) # {}

(* A realm is registered, and its owner charged, only when every step it   *)
(* cannot live without has been completed.                                 *)
RegisteredIsBootstrapped ==
    \A j \in Jobs : job[j] \in {"registering", "completed"} =>
        \A i \in Idx : IsBootstrap(i) => task[j].step[i] = "completed"

(* The installer makes nobody administrator of a realm that has launched,  *)
(* although the launch may come between its look at the realm and its      *)
(* call.                                                                   *)
AdminBeforeLaunch ==
    [][realm.launched =>
         \A i \in Idx : Steps[i].kind = "founder_admin" /\ Steps[i] \in realm'.has =>
             Steps[i] \in realm.has]_vars

(* A step that was completed is never run again, nor said to have failed.  *)
CompletedStepStays ==
    [][\A j \in Jobs :
         With(task[j].step, "completed") \subseteq With(task'[j].step, "completed")]_vars
=============================================================================
