--------------------------- MODULE DeploymentView ---------------------------
(***************************************************************************)
(* What the portal makes of a job's record (deployment-progress.js,        *)
(* deployment-attempt-memory.js, installer-queue.js): the progress bar,    *)
(* the label, the steps of a card, and the memory of a failed attempt that *)
(* the browser keeps between two looks at the same job.                    *)
(***************************************************************************)
EXTENDS JobQueries, FiniteSetsExt

Failures == {"failed", "failed_verification", "cancelled"}
Active(r) == r.status \in LiveStatuses

(* deploymentFinishedWithErrors.                                           *)
FinishedWithErrors(r) == r.status = "completed" /\ r.error # "none"

IsFailedRow(r) == r.status \in Failures \/ FinishedWithErrors(r)
IsComplete(r) == r.status = "completed" /\ ~ FinishedWithErrors(r)

----------------------------------------------------------------------------
(* The memory of a failed attempt, in sessionStorage.                      *)

Memory == [lastError : Errors, failedAt : Nat, startedAt : Nat, auto : BOOLEAN]
NoMemory == [lastError |-> "none", failedAt |-> 0, startedAt |-> 0, auto |-> FALSE]

(* Mutant of Remembered: a failure keeps the mark of the retry before it.  *)
RememberedStill(m, r, t) ==
    LET error == IF r.error # "none" THEN r.error ELSE m.lastError IN
    IF IsComplete(r) THEN NoMemory
    ELSE IF r.status \in Failures
    THEN [lastError |-> error, failedAt |-> r.ended, auto |-> m.auto,
          startedAt |-> IF m.startedAt > 0 THEN m.startedAt ELSE r.created]
    ELSE IF Active(r) /\ (m.lastError # "none" \/ r.ended > 0)
    THEN [lastError |-> error, auto |-> TRUE,
          failedAt |-> IF m.failedAt > 0 THEN m.failedAt ELSE r.ended,
          startedAt |-> IF m.auto THEN m.startedAt ELSE t]
    ELSE m

(* rememberJobAttempt: what is remembered after a look at record r at time *)
(* t.  A failure counts as being retried as soon as the job is seen alive. *)
Remembered(m, r, t) ==
    LET error == IF r.error # "none" THEN r.error ELSE m.lastError IN
    IF IsComplete(r) THEN NoMemory
    ELSE IF r.status \in Failures
    THEN [lastError |-> error, failedAt |-> r.ended, auto |-> FALSE,
          startedAt |-> IF m.startedAt > 0 THEN m.startedAt ELSE r.created]
    ELSE IF Active(r) /\ (m.lastError # "none" \/ r.ended > 0)
    THEN [lastError |-> error, auto |-> TRUE,
          failedAt |-> IF m.failedAt > 0 THEN m.failedAt ELSE r.ended,
          startedAt |-> IF m.auto THEN m.startedAt ELSE t]
    ELSE m

(* The same look forgets when the stages of the earlier attempt began.     *)
ForgetsStages(m, r) ==
    \/ IsComplete(r)
    \/ Active(r) /\ (m.lastError # "none" \/ r.ended > 0) /\ ~ m.auto

----------------------------------------------------------------------------
(* The pipeline: Queued, Creating canisters, Verifying software,           *)
(* Installing extensions, Registering realm, Complete.                     *)
Stages == 0 .. 5

StageOfStatus(s) ==
    CASE s \in {"pending", "cancelled"}             -> 0
      [] s = "provisioning"                         -> 1
      [] s \in {"verifying", "failed_verification"} -> 2
      [] s = "extensions"                           -> 3
      [] s = "registering"                          -> 4
      [] s \in {"completed", "failed"}              -> 5

(* A run that finished with errors stopped in the extensions; any other    *)
(* failure is shown before "Complete".                                     *)
ActiveStage(r) ==
    IF FinishedWithErrors(r) THEN 3
    ELSE IF IsFailedRow(r) THEN Min({StageOfStatus(r.status), 4})
    ELSE StageOfStatus(r.status)

StageState(r, i) ==
    IF IsComplete(r) \/ i < ActiveStage(r) THEN "done"
    ELSE IF i > ActiveStage(r) THEN "upcoming"
    ELSE IF IsFailedRow(r) THEN "failed" ELSE "active"

(* The answer of get_deploy_task_status, which is asked for only once a    *)
(* task may exist; a page without it has NoTask.                           *)
FetchesTask(r) == r.status \in {"extensions", "registering"} \/ r.task # NoTask

ExtensionTotal(task) == Max({Len(task), Len(StepKinds)})

ExtensionDone(r, task) ==
    IF task = NoTask /\ r.status \in {"registering", "completed"}
    THEN ExtensionTotal(task)
    ELSE Cardinality(StepsIn(task, "completed"))

(* Mutants of ExtensionPercent: the step under way counts as done, or the  *)
(* phase starts lower than the one before it ends.                         *)
ExtensionPercentAhead(done, total) ==
    IF total = 0 THEN 42 ELSE 42 + (50 * (done + 1)) \div total
ExtensionPercentFromBelow(done, total) ==
    IF total = 0 THEN 42 ELSE 32 + (60 * done) \div total

(* Math.round of 42 + 50 * done / total.                                   *)
ExtensionPercent(done, total) ==
    IF total = 0 THEN 42 ELSE (2 * (42 * total + 50 * done) + total) \div (2 * total)

(* computeDeploymentPercent: each phase owns a slice of 0 to 100.          *)
Percent(r, task) ==
    LET verified == r.made = "realm"
        total    == ExtensionTotal(task)
    IN
    IF IsComplete(r) THEN 100
    ELSE IF r.status = "pending" /\ r.made = "nothing" THEN 3
    ELSE IF \/ r.status \in {"pending", "provisioning"}
            \/ ~ verified /\ r.status = "verifying"
    THEN CASE r.made = "nothing" -> 7 [] r.made = "canisters" -> 26 [] OTHER -> 35
    ELSE IF r.status \in {"verifying", "failed_verification"}
    THEN IF verified THEN 42 ELSE 38
    ELSE IF r.status = "extensions" \/ total > 0
    THEN ExtensionPercent(ExtensionDone(r, task), total)
    ELSE IF r.status = "registering" THEN 96
    ELSE IF verified THEN 42 ELSE 5

----------------------------------------------------------------------------
(* The label of a card.                                                    *)

Redrivable == {"pending", "provisioning"}

(* uniqueErrorText(job.error || memory.lastError).                         *)
LastError(r, m) == IF r.error # "none" THEN r.error ELSE m.lastError

IsBlocked(r, m) == ~ IsComplete(r) /\ LastError(r, m) = "blocked"

IsAutoRetrying(r, m) ==
    /\ ~ IsFailedRow(r) /\ ~ IsComplete(r) /\ ~ IsBlocked(r, m)
    /\ r.status \in Redrivable
    /\ m.auto \/ m.lastError # "none" \/ r.ended > 0

IsStalled(r, m) ==
    /\ ~ IsFailedRow(r) /\ ~ IsComplete(r) /\ ~ IsBlocked(r, m)
    /\ r.status \notin Redrivable
    /\ r.ended > 0

Label(r, m) ==
    IF IsComplete(r) THEN "Complete"
    ELSE IF IsFailedRow(r) THEN "Failed"
    ELSE IF IsBlocked(r, m) THEN "Blocked"
    ELSE IF IsStalled(r, m) THEN "Stalled"
    ELSE IF IsAutoRetrying(r, m) THEN "Retrying automatically"
    ELSE r.status

----------------------------------------------------------------------------
(* What the expandable list of steps shows of each step.                   *)
SubStepState(s) ==
    CASE s = "completed" -> "done" [] s = "failed" -> "failed"
      [] s = "running" -> "active" [] OTHER -> "upcoming"

(* installerJobToDeploymentRow: what a page shows of a record, once it has *)
(* remembered it as m.                                                     *)
Row(r, task, m) ==
    [status  |-> r.status,
     ended   |-> r.ended,
     percent |-> Percent(r, task),
     stages  |-> [i \in Stages |-> StageState(r, i)],
     label   |-> Label(r, m),
     steps   |-> {SubStepState(task[i]) : i \in DOMAIN task}]

(* The row of a job that still runs, or seems to.                          *)
IsActive(row) == row.label \notin {"Complete", "Failed"}
=============================================================================
