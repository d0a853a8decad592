----------------------------- MODULE JobQueries -----------------------------
(***************************************************************************)
(* Deployment jobs as the installer's query endpoints describe them to the *)
(* portal (get_deployment_job_status, get_deploy_task_status,              *)
(* list_deployment_jobs): the status, which moves as JobLife allows, and   *)
(* the stored fields that a page reads with it.                            *)
(*                                                                         *)
(* What happens inside the installer is in InstallerJobs.  Here one step   *)
(* is one change that a query can see.                                     *)
(***************************************************************************)
EXTENDS JobLife, Naturals, Sequences

CONSTANTS
    StepKinds,  \* the kinds of a deploy task's steps: setup, extension, codex
    Turns,      \* which turns a deployment may take besides succeeding
    MaxTime     \* bound on the beginnings and ends of attempts

AllTurns == {"off_chain", "unverified", "step_fails", "blocked", "fails", "cancel",
             "retry", "revive"}

ASSUME JobQueriesAssumption ==
    /\ StepKinds \in Seq({"setup", "extension", "codex"})
    /\ Turns \subseteq AllTurns
    /\ MaxTime \in Nat

VARIABLES
    about,   \* the other fields of each job's record
    now      \* the clock, which the installer and the browser share; it counts
             \* the beginnings and ends of attempts, all that a page compares

----------------------------------------------------------------------------
StepStates == {"pending", "running", "completed", "failed"}
NoTask == << >>

(* An error is told apart only by what the portal looks for in its text:   *)
(* "blocked" names a permission that the installer cannot obtain.          *)
Errors == {"none", "partial", "blocked", "other"}

(* What is made already: the ids are known, the assets are verified.       *)
Made == {"nothing", "canisters", "realm"}
Tasks == {NoTask} \union [DOMAIN StepKinds -> StepStates]

About == [error : Errors, created : Nat, made : Made, task : Tasks,
          ended : Nat]     \* completed_at, 0 if never

NoRecord == [error |-> "none", created |-> 0, ended |-> 0, made |-> "nothing",
             task |-> NoTask]

JobQueriesTypeOK ==
    /\ life \in [Jobs -> LifeStatuses]
    /\ about \in [Jobs -> About]
    /\ now \in 0 .. MaxTime

(* The record of a job as a query returns it.                              *)
Record(j) ==
    [status |-> life[j], error |-> about[j].error, created |-> about[j].created,
     ended |-> about[j].ended, made |-> about[j].made, task |-> about[j].task]

Records == [status : LifeStatuses, error : Errors, created : Nat, ended : Nat,
            made : Made, task : Tasks]

StepsIn(task, state) == {i \in DOMAIN task : task[i] = state}

----------------------------------------------------------------------------
(* A new phase of the same attempt.                                        *)
Moves(j, s, r) ==
    /\ LifeStep(j, s)
    /\ about' = [about EXCEPT ![j] = r]
    /\ UNCHANGED now

(* The status is not touched: a step of the deploy task moves on.          *)
Steps(j, r) ==
    /\ about' = [about EXCEPT ![j] = r]
    /\ UNCHANGED <<life, now>>

(* An attempt begins, or ends.                                             *)
Passes(j, s, r) ==
    /\ now < MaxTime
    /\ LifeStep(j, s)
    /\ about' = [about EXCEPT ![j] = r]
    /\ now' = now + 1

EnqueuesJob(j) ==
    /\ life[j] = "none"
    /\ about[j] = NoRecord
    /\ \E s \in {"provisioning"} \union (IF "off_chain" \in Turns THEN {"pending"} ELSE {}) :
         Passes(j, s, [NoRecord EXCEPT !.created = now + 1])

(* report_canister_ready.                                                  *)
MakesCanisters(j) ==
    /\ life[j] = "pending"
    /\ Moves(j, "verifying", [about[j] EXCEPT !.made = "canisters"])

FailsVerification(j) ==
    /\ "unverified" \in Turns
    /\ life[j] = "verifying"
    /\ Passes(j, "failed_verification",
             [about[j] EXCEPT !.error = "other", !.ended = now + 1])

(* The canisters exist and their content is verified: a deploy task is     *)
(* built, or the one that a failed attempt left is resumed, with the steps *)
(* that failed pending again.                                              *)
ResumedTask(task) ==
    IF task = NoTask
    THEN [i \in DOMAIN StepKinds |-> "pending"]
    ELSE [i \in DOMAIN task |-> IF task[i] = "completed" THEN "completed" ELSE "pending"]

StartsBootstrap(j) ==
    /\ life[j] \in {"provisioning", "verifying"}
    /\ Moves(j, "extensions",
             [about[j] EXCEPT !.made = "realm", !.task = ResumedTask(about[j].task)])

(* The steps of a task run one after the other.                            *)
StartsStep(j) ==
    /\ life[j] = "extensions"
    /\ StepsIn(about[j].task, "running") = {}
    /\ \E i \in StepsIn(about[j].task, "pending") :
         /\ \A k \in 1 .. i - 1 : about[j].task[k] # "pending"
         /\ Steps(j, [about[j] EXCEPT !.task[i] = "running"])

EndsStep(j) ==
    \E i \in StepsIn(about[j].task, "running") :
      \E s \in {"completed"} \union (IF "step_fails" \in Turns THEN {"failed"} ELSE {}) :
        Steps(j, [about[j] EXCEPT !.task[i] = s])

Unfinished(task) == StepsIn(task, "pending") \union StepsIn(task, "running")

(* A failed step of the bootstrap, the codex among them, or nothing but    *)
(* failures, fails the job; a failed extension is only noted in it.        *)
BootstrapBroken(task) ==
    \/ \E i \in StepsIn(task, "failed") : StepKinds[i] \in {"setup", "codex"}
    \/ DOMAIN task # {} /\ StepsIn(task, "failed") = DOMAIN task

EndsBootstrap(j) ==
    /\ life[j] = "extensions"
    /\ Unfinished(about[j].task) = {}
    /\ IF BootstrapBroken(about[j].task)
       THEN Passes(j, "failed", [about[j] EXCEPT !.error = "other", !.ended = now + 1])
       ELSE Moves(j, "registering",
                  IF StepsIn(about[j].task, "failed") = {}
                  THEN about[j] ELSE [about[j] EXCEPT !.error = "partial"])

(* schedule_registration, when the registry has answered: whatever error   *)
(* the record holds is cleared.                                            *)
Registers(j) ==
    /\ life[j] = "registering"
    /\ Passes(j, "completed", [about[j] EXCEPT !.error = "none", !.ended = now + 1])

(* A pass, a runner or a report gives the job up at any of its phases.     *)
FailureErrors == (IF "fails" \in Turns THEN {"other"} ELSE {}) \union
                 (IF "blocked" \in Turns THEN {"blocked"} ELSE {})

FailsJob(j) ==
    /\ life[j] \in {"provisioning", "verifying", "extensions", "registering"}
    /\ \E error \in FailureErrors :
         Passes(j, "failed", [about[j] EXCEPT !.error = error, !.ended = now + 1])

CancelsJob(j) ==
    /\ "cancel" \in Turns
    /\ life[j] \in {"pending", "provisioning"}
    /\ Passes(j, "cancelled", [about[j] EXCEPT !.error = "other", !.ended = now + 1])

(* retry_deployment keeps the error and the end of the failed attempt.     *)
RetriesJob(j) ==
    /\ "retry" \in Turns
    /\ life[j] = "failed"
    /\ Passes(j, "provisioning", about[j])

(* delete_deployment_job, for the owner of a job that did not succeed.     *)
DeletesJob(j) ==
    /\ life[j] \in {"failed", "failed_verification", "cancelled"}
    /\ Moves(j, "gone", about[j])

(* A suspended pass writes its status over that of a job that has ended.   *)
RevivesJob(j) ==
    /\ "revive" \in Turns
    /\ life[j] \in {"failed", "cancelled"}
    /\ Passes(j, "provisioning", about[j])

----------------------------------------------------------------------------
JobQueriesInit ==
    /\ LifeInit
    /\ about = [j \in Jobs |-> NoRecord]
    /\ now = 0

InstallerMoves(j) ==
    \/ EnqueuesJob(j) \/ MakesCanisters(j) \/ FailsVerification(j) \/ StartsBootstrap(j)
    \/ StartsStep(j) \/ EndsStep(j) \/ EndsBootstrap(j) \/ Registers(j) \/ FailsJob(j)
    \/ CancelsJob(j) \/ RetriesJob(j) \/ RevivesJob(j)
=============================================================================
