------------------------ MODULE DeployTasks_proofs -------------------------
(***************************************************************************)
(* Theorems about DeployTasks, for any number of deployments of a realm,   *)
(* any list of steps and any number of retries and upgrades.               *)
(***************************************************************************)
EXTENDS DeployTasks, TLAPS

Suspended == {"checking", "asking"} \union Answers
Realms == [has : SUBSET {Steps[i] : i \in Idx}, named : BOOLEAN, launched : BOOLEAN]
Runners == [phase : RunnerPhases, at : {0} \union Idx]
Tasks == [status : TaskStatuses, step : [Idx -> StepStatuses]]

(* A suspended runner is in a step of its task.                            *)
AtStep ==
    \A j \in Jobs, k \in Slots : runner[j][k].phase \in Suspended => runner[j][k].at \in Idx

TypeInv == DeployTasksTypeOK /\ AtStep

(* What a runner is about to record as done has been done to the realm.    *)
AnswerIsTrue ==
    \A j \in Jobs, k \in Slots :
        runner[j][k].phase \in {"done", "already"} => Steps[runner[j][k].at] \in realm.has

TruthInv == TypeInv /\ AnswerIsTrue /\ RecordIsTrue

----------------------------------------------------------------------------
(* The pieces that the actions share.                                      *)

LEMMA RunnerConstants == Idle \in Runners /\ Armed \in Runners /\ Delayed \in Runners
BY DEF Idle, Armed, Delayed, Runners, RunnerPhases

(* A new value for one runner, or none, keeps the runners of every task.   *)
LEMMA RunnersKept ==
    ASSUME TypeInv, NEW j \in Jobs, NEW k \in Slots, NEW r \in Runners,
           r.phase \in Suspended => r.at \in Idx,
           runner' = [runner EXCEPT ![j][k] = r]
    PROVE  /\ runner' \in [Jobs -> [Slots -> Runners]]
           /\ AtStep'
BY DEF TypeInv, DeployTasksTypeOK, AtStep, Runners

LEMMA VerdictType == \A s : Verdict(s) \in TerminalTask /\ TerminalTask \subseteq TaskStatuses
BY DEF Verdict, TerminalTask, TaskStatuses

LEMMA JobAfterType == \A s : JobAfter(s) \in JobStatuses
BY DEF JobAfter, JobStatuses

LEMMA TasksKept ==
    ASSUME TypeInv, NEW j \in Jobs, NEW t \in Tasks, task' = [task EXCEPT ![j] = t]
    PROVE  task' \in [Jobs -> Tasks]
BY DEF TypeInv, DeployTasksTypeOK, Tasks

LEMMA FilesType ==
    ASSUME TypeInv, NEW j \in Jobs, NEW s, Files(j, s)
    PROVE  filing' \in [Jobs -> 0..MaxFilings]
<1>1. /\ filing \in [Jobs -> 0..MaxFilings]
      /\ MaxFilings \in Nat
  BY DeployTasksAssumption DEF TypeInv, DeployTasksTypeOK
<1>2. CASE JobAfter(s) = "registering"
  <2>1. filing' = [filing EXCEPT ![j] = filing[j] + 1] /\ filing[j] < MaxFilings
    BY <1>2 DEF Files
  <2>. QED BY <1>1, <2>1
<1>3. CASE JobAfter(s) # "registering"
  <2>1. filing' = [filing EXCEPT ![j] = filing[j]]
    BY <1>3 DEF Files
  <2>. QED BY <1>1, <2>1
<1>. QED BY <1>2, <1>3

(* The runner's way on, from any steps of its task.                        *)
LEMMA ProceedsType ==
    ASSUME TypeInv, NEW j \in Jobs, NEW k \in Slots, NEW status \in TaskStatuses,
           NEW s \in [Idx -> StepStatuses], Proceeds(j, k, status, s)
    PROVE  /\ job' \in [Jobs -> JobStatuses]
           /\ task' \in [Jobs -> Tasks]
           /\ runner' \in [Jobs -> [Slots -> Runners]]
           /\ filing' \in [Jobs -> 0..MaxFilings]
           /\ AtStep'
<1>1. CASE With(s, "pending") = {}
  <2>1. /\ task' = [task EXCEPT ![j] = [status |-> Verdict(s), step |-> s]]
        /\ job' = [job EXCEPT ![j] = JobAfter(s)]
        /\ Files(j, s)
        /\ runner' = [runner EXCEPT ![j][k] = Idle]
    BY <1>1 DEF Proceeds
  <2>2. [status |-> Verdict(s), step |-> s] \in Tasks
    BY VerdictType DEF Tasks
  <2>3. Idle.phase \notin Suspended
    BY DEF Idle, Suspended, Answers
  <2>4. filing' \in [Jobs -> 0..MaxFilings]
    BY <2>1, FilesType
  <2>. QED
    BY <2>1, <2>2, <2>3, <2>4, TasksKept, JobAfterType, RunnersKept, RunnerConstants
       DEF TypeInv, DeployTasksTypeOK
<1>2. CASE With(s, "pending") # {}
  <2>1. PICK next \in With(s, "pending") :
          /\ task' = [task EXCEPT ![j] = [status |-> status,
                                          step |-> [s EXCEPT ![next] = "running"]]]
          /\ runner' = [runner EXCEPT ![j][k] =
                [phase |-> FirstCall(next), at |-> next]]
          /\ UNCHANGED <<job, filing>>
    BY <1>2 DEF Proceeds
  <2>2. next \in Idx
    BY DEF With
  <2>3. [status |-> status, step |-> [s EXCEPT ![next] = "running"]] \in Tasks
    BY <2>2 DEF Tasks, StepStatuses
  <2>4. [phase |-> FirstCall(next), at |-> next] \in Runners
    BY <2>2 DEF Runners, RunnerPhases, FirstCall
  <2>. QED
    BY <2>1, <2>2, <2>3, <2>4, TasksKept, RunnersKept DEF TypeInv, DeployTasksTypeOK
<1>. QED BY <1>1, <1>2

----------------------------------------------------------------------------
(* Type correctness: one lemma per action.                                 *)

LEMMA ArmType ==
    ASSUME TypeInv, NEW j \in Jobs, Arm(j)
    PROVE  runner' \in [Jobs -> [Slots -> Runners]] /\ AtStep'
<1>1. PICK k \in Slots : runner' = [runner EXCEPT ![j][k] = Armed]
  BY DEF Arm
<1>2. Armed.phase \notin Suspended
  BY DEF Armed, Suspended, Answers
<1>. QED BY <1>1, <1>2, RunnersKept, RunnerConstants

LEMMA BuildType == ASSUME TypeInv, NEW j \in Jobs, Build(j) PROVE TypeInv'
<1>1. CASE /\ job' = [job EXCEPT ![j] = "failed"]
           /\ UNCHANGED <<task, runner, retried, filing, realm, upgrades>>
  BY <1>1 DEF TypeInv, DeployTasksTypeOK, JobStatuses, AtStep
<1>2. ASSUME NEW s \in [Idx -> StepStatuses],
             task' = [task EXCEPT ![j] = [status |-> "queued", step |-> s]],
             job' = [job EXCEPT ![j] = "extensions"], Arm(j),
             UNCHANGED <<retried, filing, realm, upgrades>>
      PROVE  TypeInv'
  <2>1. [status |-> "queued", step |-> s] \in Tasks
    BY DEF Tasks, TaskStatuses
  <2>2. task' \in [Jobs -> Tasks]
    BY <1>2, <2>1, TasksKept
  <2>3. runner' \in [Jobs -> [Slots -> Runners]] /\ AtStep'
    BY <1>2, ArmType
  <2>. QED
    BY <1>2, <2>2, <2>3 DEF TypeInv, DeployTasksTypeOK, JobStatuses, Tasks, Runners
<1>3. Fresh \in [Idx -> StepStatuses]
  BY DEF Fresh, StepStatuses
<1>4. ASSUME NEW done PROVE Kept(done) \in [Idx -> StepStatuses]
  BY DEF Kept, StepStatuses
<1>. QED BY <1>1, <1>2, <1>3, <1>4 DEF Build

LEMMA ResumeType == ASSUME TypeInv, NEW j \in Jobs, Resume(j) PROVE TypeInv'
<1>1. PICK reset :
        task' = [task EXCEPT ![j] =
            [status |-> "queued",
             step |-> [i \in Idx |-> IF i \in reset THEN "pending" ELSE task[j].step[i]]]]
  BY DEF Resume
<1>2. [status |-> "queued",
       step |-> [i \in Idx |-> IF i \in reset THEN "pending" ELSE task[j].step[i]]] \in Tasks
  BY DEF TypeInv, DeployTasksTypeOK, Tasks, TaskStatuses, StepStatuses
<1>3. task' \in [Jobs -> Tasks]
  BY <1>1, <1>2, TasksKept
<1>4. runner' \in [Jobs -> [Slots -> Runners]] /\ AtStep'
  BY ArmType DEF Resume
<1>. QED
  BY <1>3, <1>4 DEF Resume, TypeInv, DeployTasksTypeOK, JobStatuses, Tasks, Runners

LEMMA RunnerStartsType ==
    ASSUME TypeInv, NEW j \in Jobs, NEW k \in Slots, RunnerStarts(j, k) PROVE TypeInv'
<1>1. CASE task[j].status \in TerminalTask
  <2>1. Idle.phase \notin Suspended
    BY DEF Idle, Suspended, Answers
  <2>. QED
    BY <1>1, <2>1, RunnersKept, RunnerConstants
       DEF RunnerStarts, TypeInv, DeployTasksTypeOK, Tasks, Runners
<1>2. CASE task[j].status \notin TerminalTask
  <2>1. /\ (IF task[j].status = "queued" THEN "running" ELSE task[j].status) \in TaskStatuses
        /\ task[j].step \in [Idx -> StepStatuses]
    BY DEF TypeInv, DeployTasksTypeOK, TaskStatuses
  <2>2. Proceeds(j, k, IF task[j].status = "queued" THEN "running" ELSE task[j].status,
                 task[j].step)
    BY <1>2 DEF RunnerStarts
  <2>. QED
    BY <2>1, <2>2, ProceedsType
       DEF RunnerStarts, TypeInv, DeployTasksTypeOK, Tasks, Runners
<1>. QED BY <1>1, <1>2

LEMMA AnsweredType ==
    ASSUME TypeInv, NEW j \in Jobs, NEW k \in Slots, runner[j][k].phase \in Suspended,
           NEW answer \in Suspended, Answered(j, k, answer)
    PROVE  runner' \in [Jobs -> [Slots -> Runners]] /\ AtStep'
<1>1. runner' = [runner EXCEPT ![j][k] = [phase |-> answer, at |-> runner[j][k].at]]
  <2>1. runner' = [runner EXCEPT ![j][k] = [runner[j][k] EXCEPT !.phase = answer]]
    BY DEF Answered
  <2>2. runner[j][k] \in Runners
    BY DEF TypeInv, DeployTasksTypeOK, Runners
  <2>3. [runner[j][k] EXCEPT !.phase = answer] = [phase |-> answer, at |-> runner[j][k].at]
    BY <2>2 DEF Runners
  <2>. QED BY <2>1, <2>3
<1>2. /\ [phase |-> answer, at |-> runner[j][k].at] \in Runners
      /\ runner[j][k].at \in Idx
  BY DEF TypeInv, DeployTasksTypeOK, AtStep, Runners, RunnerPhases, Suspended
<1>. QED BY <1>1, <1>2, RunnersKept

LEMMA StageIsReadType ==
    ASSUME TypeInv, NEW j \in Jobs, NEW k \in Slots, StageIsRead(j, k) PROVE TypeInv'
<1>1. \E answer \in Suspended : Answered(j, k, answer)
  BY DEF StageIsRead, Suspended, Answers
<1>2. runner[j][k].phase \in Suspended
  BY DEF StageIsRead, Suspended
<1>. QED
  BY <1>1, <1>2, AnsweredType DEF StageIsRead, TypeInv, DeployTasksTypeOK, Runners

LEMMA RealmRunsType ==
    ASSUME TypeInv, NEW j \in Jobs, NEW k \in Slots, RealmRuns(j, k) PROVE TypeInv'
<1>1. \E answer \in Suspended : Answered(j, k, answer)
  BY DEF RealmRuns, Suspended, Answers
<1>2. runner[j][k].phase \in Suspended
  BY DEF RealmRuns, Suspended
<1>3. runner' \in [Jobs -> [Slots -> Runners]] /\ AtStep'
  BY <1>1, <1>2, AnsweredType
<1>4. runner[j][k].at \in Idx
  BY <1>2 DEF TypeInv, AtStep
<1>5. realm \in Realms /\ Steps[runner[j][k].at] \in {Steps[i] : i \in Idx}
  BY <1>4 DEF Realms, TypeInv, DeployTasksTypeOK
<1>6. realm' = realm \/ realm' = [realm EXCEPT !.has = @ \union {Steps[runner[j][k].at]}]
  BY DEF RealmRuns
<1>7. realm' \in Realms
  BY <1>5, <1>6 DEF Realms
<1>. QED
  BY <1>3, <1>7 DEF RealmRuns, TypeInv, DeployTasksTypeOK, Runners, Realms

LEMMA RunnerResumesType ==
    ASSUME TypeInv, NEW j \in Jobs, NEW k \in Slots, RunnerResumes(j, k) PROVE TypeInv'
<1>. DEFINE i == runner[j][k].at
            answer == runner[j][k].phase
            Recorded(status) == [task[j].step EXCEPT ![i] = status]
<1>1. answer \in Answers /\ i \in Idx
  BY DEF RunnerResumes, TypeInv, AtStep, Suspended
<1>2. ASSUME NEW status \in StepStatuses PROVE Recorded(status) \in [Idx -> StepStatuses]
  BY DEF TypeInv, DeployTasksTypeOK
<1>3. CASE MayRetry(answer, retried[j][i])
  <2>1. /\ task' = [task EXCEPT ![j].step = Recorded("pending")]
        /\ retried' = [retried EXCEPT ![j][i] = @ + 1]
        /\ runner' = [runner EXCEPT ![j][k] = Delayed]
        /\ UNCHANGED <<job, filing, realm, upgrades>>
    BY <1>3 DEF RunnerResumes
  <2>2. Delayed.phase \notin Suspended
    BY DEF Delayed, Suspended, Answers
  <2>3. runner' \in [Jobs -> [Slots -> Runners]] /\ AtStep'
    BY <2>1, <2>2, RunnersKept, RunnerConstants
  <2>4. task' \in [Jobs -> Tasks]
    <3>1. task[j] \in Tasks /\ Recorded("pending") \in [Idx -> StepStatuses]
      BY <1>2 DEF TypeInv, DeployTasksTypeOK, Tasks, StepStatuses
    <3>2. [task[j] EXCEPT !.step = Recorded("pending")] \in Tasks
      BY <3>1 DEF Tasks
    <3>3. task' = [task EXCEPT ![j] = [task[j] EXCEPT !.step = Recorded("pending")]]
      BY <2>1
    <3>. QED BY <3>2, <3>3, TasksKept
  <2>5. retried[j][i] + 1 \in 0..MaxRetries
    BY <1>1, <1>3, DeployTasksAssumption DEF MayRetry, TypeInv, DeployTasksTypeOK
  <2>6. retried' \in [Jobs -> [Idx -> 0..MaxRetries]]
    BY <2>1, <2>5 DEF TypeInv, DeployTasksTypeOK
  <2>. QED
    BY <2>1, <2>3, <2>4, <2>6 DEF TypeInv, DeployTasksTypeOK, Tasks, Runners
<1>4. CASE ~ MayRetry(answer, retried[j][i])
  <2>1. /\ Proceeds(j, k, task[j].status, Recorded(StepStatus(answer)))
        /\ UNCHANGED <<retried, realm, upgrades>>
    BY <1>4 DEF RunnerResumes
  <2>2. StepStatus(answer) \in StepStatuses /\ task[j].status \in TaskStatuses
    BY DEF StepStatus, StepStatuses, TypeInv, DeployTasksTypeOK
  <2>3. Recorded(StepStatus(answer)) \in [Idx -> StepStatuses]
    BY <1>2, <2>2
  <2>4. /\ job' \in [Jobs -> JobStatuses]
        /\ task' \in [Jobs -> Tasks]
        /\ runner' \in [Jobs -> [Slots -> Runners]]
        /\ filing' \in [Jobs -> 0..MaxFilings]
        /\ AtStep'
    BY <2>1, <2>2, <2>3, ProceedsType
  <2>. QED
    BY <2>1, <2>4 DEF TypeInv, DeployTasksTypeOK, Tasks, Runners
<1>. QED BY <1>3, <1>4

LEMMA RunnerDiesType ==
    ASSUME TypeInv, NEW j \in Jobs, NEW k \in Slots, RunnerDies(j, k) PROVE TypeInv'
<1>. DEFINE t == [task[j] EXCEPT !.status = IF @ \in TerminalTask THEN @ ELSE "failed"]
<1>1. task' = [task EXCEPT ![j] = t]
  BY DEF RunnerDies
<1>2. task[j] \in Tasks
  BY DEF TypeInv, DeployTasksTypeOK, Tasks
<1>3. t \in Tasks
  BY <1>2 DEF Tasks, TaskStatuses, TerminalTask
<1>4. task' \in [Jobs -> Tasks]
  BY <1>1, <1>3, TasksKept
<1>5. Idle.phase \notin Suspended
  BY DEF Idle, Suspended, Answers
<1>. QED
  BY <1>4, <1>5, RunnersKept, RunnerConstants
     DEF RunnerDies, TypeInv, DeployTasksTypeOK, Tasks, Runners

(* The actions that touch neither tasks nor runners.                       *)
Beside(j) == Register(j) \/ Reconcile(j) \/ FailFromOutside(j) \/ RetryDeployment(j)

LEMMA BesideType == ASSUME TypeInv, NEW j \in Jobs, Beside(j) PROVE TypeInv'
<1>1. job' \in [Jobs -> JobStatuses]
  BY DEF Beside, Register, Reconcile, FailFromOutside, RetryDeployment, TypeInv,
         DeployTasksTypeOK, JobStatuses
<1>2. realm \in Realms
  BY DEF Realms, TypeInv, DeployTasksTypeOK
<1>3. realm' = realm \/ \E named \in {realm.named, TRUE} : realm' = [realm EXCEPT !.named = named]
  BY DEF Beside, Register, Reconcile, FailFromOutside, RetryDeployment
<1>4. realm' \in Realms
  BY <1>2, <1>3 DEF Realms
<1>5. filing' \in [Jobs -> 0..MaxFilings]
  <2>1. Register(j) \/ filing' = filing
    BY DEF Beside, Reconcile, FailFromOutside, RetryDeployment
  <2>2. ASSUME Register(j) PROVE filing' \in [Jobs -> 0..MaxFilings]
    BY <2>2, DeployTasksAssumption DEF Register, TypeInv, DeployTasksTypeOK
  <2>. QED BY <2>1, <2>2 DEF TypeInv, DeployTasksTypeOK
<1>. QED
  BY <1>1, <1>4, <1>5 DEF Beside, Register, Reconcile, FailFromOutside, RetryDeployment, TypeInv,
                    DeployTasksTypeOK, Realms, AtStep

LEMMA LaunchType == ASSUME TypeInv, Launch PROVE TypeInv'
<1>1. realm \in Realms /\ realm' = [realm EXCEPT !.launched = TRUE]
  BY DEF Launch, Realms, TypeInv, DeployTasksTypeOK
<1>2. realm' \in Realms
  BY <1>1 DEF Realms
<1>. QED
  BY <1>2 DEF Launch, TypeInv, DeployTasksTypeOK, Realms, AtStep

(* What an upgrade makes of the runners, the realm and the tasks.          *)
LEMMA UpgradeLeaves ==
    ASSUME Upgrade
    PROVE  /\ runner' \in [Jobs -> [Slots -> {Idle, Armed}]]
           /\ \/ task' = task
              \/ \E head \in Jobs : task' = [j \in Jobs |-> AfterUpgrade(j, head)]
BY DEF Upgrade, ResumeInFlight, Heads, Driven, Unfinished

LEMMA UpgradeType == ASSUME TypeInv, Upgrade PROVE TypeInv'
<1>1. runner' \in [Jobs -> [Slots -> Runners]] /\ AtStep'
  <2>1. {Idle, Armed} \subseteq Runners /\ \A r \in {Idle, Armed} : r.phase \notin Suspended
    BY RunnerConstants DEF Idle, Armed, Suspended, Answers
  <2>. QED BY <2>1, UpgradeLeaves DEF AtStep
<1>2. realm' \in Realms
  <2>1. PICK ran \in SUBSET {p \in Jobs \X Slots : runner[p[1]][p[2]].phase = "asking"} :
          realm' = [realm EXCEPT !.has = @ \union {Steps[runner[p[1]][p[2]].at] : p \in ran}]
    BY DEF Upgrade
  <2>2. \A p \in ran : runner[p[1]][p[2]].at \in Idx
    BY DEF TypeInv, AtStep, Suspended
  <2>3. realm \in Realms
    BY DEF Realms, TypeInv, DeployTasksTypeOK
  <2>. QED BY <2>1, <2>2, <2>3 DEF Realms
<1>3. task' \in [Jobs -> Tasks]
  <2>1. ASSUME NEW j \in Jobs PROVE task[j] \in Tasks
    BY DEF TypeInv, DeployTasksTypeOK, Tasks
  <2>2. ASSUME NEW j \in Jobs, NEW head \in Jobs PROVE AfterUpgrade(j, head) \in Tasks
    BY <2>1 DEF AfterUpgrade, Again, Tasks, TaskStatuses, StepStatuses
  <2>. QED BY <2>1, <2>2, UpgradeLeaves DEF TypeInv, DeployTasksTypeOK, Tasks
<1>4. /\ retried' \in [Jobs -> [Idx -> 0..MaxRetries]]
      /\ filing' \in [Jobs -> 0..MaxFilings]
      /\ upgrades' \in 0..MaxUpgrades
      /\ job' = job
  BY DeployTasksAssumption DEF Upgrade, TypeInv, DeployTasksTypeOK
<1>. QED
  BY <1>1, <1>2, <1>3, <1>4 DEF TypeInv, DeployTasksTypeOK, Runners, Realms, Tasks

LEMMA TypeInvInit == DeployTasksInit => TypeInv
BY DeployTasksAssumption
   DEF DeployTasksInit, TypeInv, DeployTasksTypeOK, AtStep, JobStatuses, TaskStatuses,
       StepStatuses, NoTask, Fresh, Idle, RunnerPhases, Suspended, Answers

LEMMA TypeInvNext == TypeInv /\ [DeployTasksNext]_vars => TypeInv'
<1>. SUFFICES ASSUME TypeInv, [DeployTasksNext]_vars PROVE TypeInv'
  OBVIOUS
<1>1. CASE UNCHANGED vars
  BY <1>1 DEF vars, TypeInv, DeployTasksTypeOK, AtStep
<1>2. ASSUME NEW j \in Jobs, Build(j) \/ Resume(j) \/ Beside(j) PROVE TypeInv'
  BY <1>2, BuildType, ResumeType, BesideType
<1>3. ASSUME NEW j \in Jobs, NEW k \in Slots, RunnerStep(j, k) \/ RunnerDies(j, k)
      PROVE  TypeInv'
  BY <1>3, RunnerStartsType, StageIsReadType, RealmRunsType, RunnerResumesType, RunnerDiesType
     DEF RunnerStep
<1>. QED BY <1>1, <1>2, <1>3, LaunchType, UpgradeType DEF DeployTasksNext, Beside

(* Whatever fails, is retried, resumed too early or upgraded, no step is   *)
(* retried more often than _MAX_RETRIES says between two upgrades, and     *)
(* every suspended runner is in a step of its task.                        *)
THEOREM DeployTasksTyping == DeployTasksSpec => []DeployTasksTypeOK
<1>1. DeployTasksSpec => []TypeInv
  BY TypeInvInit, TypeInvNext, PTL DEF DeployTasksSpec
<1>. QED BY <1>1, PTL DEF TypeInv

----------------------------------------------------------------------------
(* The records are true.                                                   *)

Done(s) == With(s, "completed")

(* What a step does to the realm.                                          *)
RealmChanges ==
    \/ realm' = realm
    \/ \E more : realm' = [realm EXCEPT !.has = @ \union more]
    \/ /\ \E j \in Jobs : filing[j] > 0
       /\ \E named \in {realm.named, TRUE} : realm' = [realm EXCEPT !.named = named]
    \/ realm.named /\ realm' = [realm EXCEPT !.launched = TRUE]

LEMMA RealmSteps == ASSUME DeployTasksNext PROVE RealmChanges
<1>1. ASSUME NEW j \in Jobs,
             Build(j) \/ Resume(j) \/ Reconcile(j) \/ FailFromOutside(j) \/ RetryDeployment(j)
      PROVE  RealmChanges
  BY <1>1 DEF Build, Resume, Reconcile, FailFromOutside, RetryDeployment, RealmChanges
<1>2. ASSUME NEW j \in Jobs, Register(j)
      PROVE  RealmChanges
  BY <1>2 DEF Register, RealmChanges
<1>3. ASSUME NEW j \in Jobs, NEW k \in Slots,
             RunnerStarts(j, k) \/ StageIsRead(j, k) \/ RunnerResumes(j, k) \/ RunnerDies(j, k)
      PROVE  RealmChanges
  BY <1>3 DEF RunnerStarts, StageIsRead, RunnerResumes, RunnerDies, RealmChanges
<1>4. ASSUME NEW j \in Jobs, NEW k \in Slots, RealmRuns(j, k)
      PROVE  RealmChanges
  BY <1>4 DEF RealmRuns, RealmChanges
<1>5. Launch => RealmChanges
  BY DEF Launch, RealmChanges
<1>6. Upgrade => RealmChanges
  BY DEF Upgrade, RealmChanges
<1>. QED BY <1>1, <1>2, <1>3, <1>4, <1>5, <1>6 DEF DeployTasksNext, RunnerStep

(* What was done to the realm stays done.                                  *)
LEMMA RealmKeeps ==
    ASSUME TypeInv, DeployTasksNext
    PROVE  realm.has \subseteq realm'.has
<1>1. realm \in Realms
  BY DEF Realms, TypeInv, DeployTasksTypeOK
<1>. QED BY <1>1, RealmSteps DEF RealmChanges, Realms

(* A step that leaves no runner with a new answer, and whose records are   *)
(* of steps that are done.                                                 *)
LEMMA TruthKept ==
    ASSUME TruthInv, realm.has \subseteq realm'.has,
           \A j \in Jobs, k \in Slots :
               runner'[j][k].phase \in {"done", "already"} => runner'[j][k] = runner[j][k],
           \A j \in Jobs : \A i \in Done(task'[j].step) : Steps[i] \in realm.has
    PROVE  AnswerIsTrue' /\ RecordIsTrue'
BY DEF TruthInv, AnswerIsTrue, RecordIsTrue, Done

LEMMA OneRunner ==
    ASSUME TypeInv, NEW j \in Jobs, NEW k \in Slots, NEW r,
           runner' = [runner EXCEPT ![j][k] = r]
    PROVE  \A o \in Jobs, l \in Slots :
               runner'[o][l] = IF o = j /\ l = k THEN r ELSE runner[o][l]
BY DEF TypeInv, DeployTasksTypeOK

LEMMA OneTask ==
    ASSUME TypeInv, NEW j \in Jobs, NEW t, task' = [task EXCEPT ![j] = t]
    PROVE  \A o \in Jobs : task'[o] = IF o = j THEN t ELSE task[o]
BY DEF TypeInv, DeployTasksTypeOK

(* The way on from steps whose records are true.                           *)
LEMMA ProceedsTruth ==
    ASSUME TruthInv, NEW j \in Jobs, NEW k \in Slots, NEW status,
           NEW s \in [Idx -> StepStatuses], Proceeds(j, k, status, s), realm' = realm,
           \A i \in Done(s) : Steps[i] \in realm.has
    PROVE  AnswerIsTrue' /\ RecordIsTrue'
<1>. USE DEF TruthInv
<1>1. PICK t, r : /\ task' = [task EXCEPT ![j] = t]
                  /\ runner' = [runner EXCEPT ![j][k] = r]
                  /\ r.phase \notin {"done", "already"}
                  /\ Done(t.step) \subseteq Done(s)
  <2>1. CASE With(s, "pending") = {}
    <3>1. Idle.phase \notin {"done", "already"}
      BY DEF Idle
    <3>2. Done([status |-> Verdict(s), step |-> s].step) \subseteq Done(s)
      OBVIOUS
    <3>. QED BY <2>1, <3>1, <3>2 DEF Proceeds
  <2>2. CASE With(s, "pending") # {}
    <3>1. PICK next \in With(s, "pending") :
            /\ task' = [task EXCEPT ![j] = [status |-> status,
                                            step |-> [s EXCEPT ![next] = "running"]]]
            /\ runner' = [runner EXCEPT ![j][k] =
                  [phase |-> FirstCall(next), at |-> next]]
      BY <2>2 DEF Proceeds
    <3>2. Done([s EXCEPT ![next] = "running"]) \subseteq Done(s)
      BY DEF Done, With
    <3>. DEFINE u == [status |-> status, step |-> [s EXCEPT ![next] = "running"]]
                v == [phase |-> FirstCall(next), at |-> next]
    <3>3. u.step = [s EXCEPT ![next] = "running"] /\ v.phase \notin {"done", "already"}
      BY DEF FirstCall
    <3>4. task' = [task EXCEPT ![j] = u] /\ runner' = [runner EXCEPT ![j][k] = v]
      BY <3>1
    <3>. HIDE DEF u, v
    <3>. QED BY <3>2, <3>3, <3>4
  <2>. QED BY <2>1, <2>2
<1>2. \A o \in Jobs : task'[o] = IF o = j THEN t ELSE task[o]
  BY <1>1, OneTask
<1>3. \A o \in Jobs : \A i \in Done(task'[o].step) : Steps[i] \in realm.has
  BY <1>1, <1>2 DEF RecordIsTrue, Done
<1>4. \A o \in Jobs, l \in Slots :
        runner'[o][l].phase \in {"done", "already"} => runner'[o][l] = runner[o][l]
  BY <1>1, OneRunner
<1>. QED BY <1>3, <1>4, TruthKept

LEMMA ArmTruth ==
    ASSUME TypeInv, NEW j \in Jobs, Arm(j)
    PROVE  \A o \in Jobs, l \in Slots :
               runner'[o][l].phase \in {"done", "already"} => runner'[o][l] = runner[o][l]
BY OneRunner DEF Arm, Armed

LEMMA BuildTruth ==
    ASSUME TruthInv, NEW j \in Jobs, Build(j) PROVE AnswerIsTrue' /\ RecordIsTrue'
<1>. USE DEF TruthInv
<1>1. \A o \in Jobs, l \in Slots :
        runner'[o][l].phase \in {"done", "already"} => runner'[o][l] = runner[o][l]
  BY ArmTruth DEF Build
<1>2. \/ task' = task
      \/ task' = [task EXCEPT ![j] = [status |-> "queued", step |-> Fresh]]
      \/ \E o \in Jobs : task' = [task EXCEPT ![j] =
           [status |-> "queued", step |-> Kept(CarriedOver(task[o].step))]]
  BY DEF Build, Furthest
<1>3. Done(Fresh) = {}
  BY DEF Done, With, Fresh
<1>4. ASSUME NEW o \in Jobs
      PROVE  \A i \in Done(Kept(CarriedOver(task[o].step))) : Steps[i] \in realm.has
  BY DEF Done, With, Kept, CarriedOver, RecordIsTrue
<1>5. \A o \in Jobs : \A i \in Done(task'[o].step) : Steps[i] \in realm.has
  <2>1. CASE task' = task
    BY <2>1 DEF RecordIsTrue, Done
  <2>2. CASE task' # task
    <3>1. PICK s : /\ task' = [task EXCEPT ![j] = [status |-> "queued", step |-> s]]
                   /\ \A i \in Done(s) : Steps[i] \in realm.has
      BY <1>2, <1>3, <1>4, <2>2
    <3>. QED BY <3>1, OneTask DEF RecordIsTrue, Done
  <2>. QED BY <2>1, <2>2
<1>6. realm' = realm
  BY DEF Build
<1>. QED BY <1>1, <1>5, <1>6, TruthKept

LEMMA ResumeTruth ==
    ASSUME TruthInv, NEW j \in Jobs, Resume(j) PROVE AnswerIsTrue' /\ RecordIsTrue'
<1>. USE DEF TruthInv
<1>1. PICK reset : task' = [task EXCEPT ![j] =
          [status |-> "queued",
           step |-> [i \in Idx |-> IF i \in reset THEN "pending" ELSE task[j].step[i]]]]
  BY DEF Resume
<1>2. Done([i \in Idx |-> IF i \in reset THEN "pending" ELSE task[j].step[i]])
        \subseteq Done(task[j].step)
  BY DEF Done, With
<1>3. \A o \in Jobs : \A i \in Done(task'[o].step) : Steps[i] \in realm.has
  BY <1>1, <1>2, OneTask DEF RecordIsTrue, Done
<1>. QED BY <1>3, ArmTruth, TruthKept DEF Resume

LEMMA AnsweredTruth ==
    ASSUME TypeInv, NEW j \in Jobs, NEW k \in Slots, NEW answer, Answered(j, k, answer)
    PROVE  \A o \in Jobs, l \in Slots :
               runner'[o][l] = IF o = j /\ l = k THEN [phase |-> answer, at |-> runner[j][k].at]
                               ELSE runner[o][l]
<1>1. runner' = [runner EXCEPT ![j][k] = [runner[j][k] EXCEPT !.phase = answer]]
  BY DEF Answered
<1>2. runner[j][k] \in Runners
  BY DEF TypeInv, DeployTasksTypeOK, Runners
<1>3. [runner[j][k] EXCEPT !.phase = answer] = [phase |-> answer, at |-> runner[j][k].at]
  BY <1>2 DEF Runners
<1>4. runner' = [runner EXCEPT ![j][k] = [phase |-> answer, at |-> runner[j][k].at]]
  BY <1>1, <1>3
<1>. QED BY <1>4 DEF TypeInv, DeployTasksTypeOK

LEMMA StageIsReadTruth ==
    ASSUME TruthInv, NEW j \in Jobs, NEW k \in Slots, StageIsRead(j, k)
    PROVE  AnswerIsTrue' /\ RecordIsTrue'
<1>1. PICK answer \in {"refused", "asking", "unreachable"} : Answered(j, k, answer)
  BY DEF StageIsRead
<1>2. \A o \in Jobs, l \in Slots :
        runner'[o][l] = IF o = j /\ l = k THEN [phase |-> answer, at |-> runner[j][k].at]
                        ELSE runner[o][l]
  BY <1>1, AnsweredTruth DEF TruthInv
<1>3. \A o \in Jobs, l \in Slots :
        runner'[o][l].phase \in {"done", "already"} => runner'[o][l] = runner[o][l]
  BY <1>2
<1>. QED BY <1>3, TruthKept DEF StageIsRead, TruthInv, RecordIsTrue, Done

LEMMA RealmRunsTruth ==
    ASSUME TruthInv, NEW j \in Jobs, NEW k \in Slots, RealmRuns(j, k)
    PROVE  AnswerIsTrue' /\ RecordIsTrue'
<1>. DEFINE step == Steps[runner[j][k].at]
<1>1. PICK answer \in Answers :
        /\ Answered(j, k, answer)
        /\ answer \in {"done", "already"} => step \in realm'.has
  <2>1. realm \in Realms
    BY DEF Realms, TruthInv, TypeInv, DeployTasksTypeOK
  <2>2. [realm EXCEPT !.has = @ \union {step}].has = realm.has \union {step}
    BY <2>1 DEF Realms
  <2>. QED BY <2>2 DEF RealmRuns, Answers
<1>2. realm.has \subseteq realm'.has
  BY RealmKeeps DEF DeployTasksNext, RunnerStep, TruthInv
<1>3. AnswerIsTrue'
  <2>1. \A o \in Jobs, l \in Slots :
          runner'[o][l] = IF o = j /\ l = k THEN [phase |-> answer, at |-> runner[j][k].at]
                          ELSE runner[o][l]
    BY <1>1, AnsweredTruth DEF TruthInv
  <2>. QED BY <1>1, <1>2, <2>1 DEF TruthInv, AnswerIsTrue
<1>4. RecordIsTrue'
  BY <1>2 DEF RealmRuns, TruthInv, RecordIsTrue
<1>. QED BY <1>3, <1>4

LEMMA RunnerResumesTruth ==
    ASSUME TruthInv, NEW j \in Jobs, NEW k \in Slots, RunnerResumes(j, k)
    PROVE  AnswerIsTrue' /\ RecordIsTrue'
<1>. USE DEF TruthInv
<1>. DEFINE i == runner[j][k].at
            answer == runner[j][k].phase
            Recorded(status) == [task[j].step EXCEPT ![i] = status]
<1>1. /\ i \in Idx
      /\ task[j] \in Tasks
      /\ task[j].step \in [Idx -> StepStatuses]
  BY DEF RunnerResumes, TypeInv, DeployTasksTypeOK, AtStep, Suspended, Tasks
<1>2. CASE MayRetry(answer, retried[j][i])
  <2>1. /\ task' = [task EXCEPT ![j].step = Recorded("pending")]
        /\ runner' = [runner EXCEPT ![j][k] = Delayed]
        /\ realm' = realm
    BY <1>2 DEF RunnerResumes
  <2>2. \A o \in Jobs, l \in Slots :
          runner'[o][l].phase \in {"done", "already"} => runner'[o][l] = runner[o][l]
    BY <2>1, OneRunner DEF Delayed
  <2>3. Done(Recorded("pending")) \subseteq Done(task[j].step)
    BY <1>1 DEF Done, With
  <2>4. [task[j] EXCEPT !.step = Recorded("pending")].step = Recorded("pending")
    BY <1>1 DEF Tasks
  <2>5. task' = [task EXCEPT ![j] = [task[j] EXCEPT !.step = Recorded("pending")]]
    BY <2>1
  <2>6. \A o \in Jobs : \A n \in Done(task'[o].step) : Steps[n] \in realm.has
    BY <2>3, <2>4, <2>5, OneTask DEF RecordIsTrue, Done
  <2>. QED BY <2>1, <2>2, <2>6, TruthKept
<1>3. CASE ~ MayRetry(answer, retried[j][i])
  <2>1. /\ Proceeds(j, k, task[j].status, Recorded(StepStatus(answer)))
        /\ realm' = realm
    BY <1>3 DEF RunnerResumes
  <2>2. Recorded(StepStatus(answer)) \in [Idx -> StepStatuses]
    BY <1>1 DEF StepStatus, StepStatuses
  <2>3. \A n \in Done(Recorded(StepStatus(answer))) : Steps[n] \in realm.has
    <3>1. CASE answer \in {"done", "already"}
      BY <1>1, <3>1 DEF Done, With, RecordIsTrue, AnswerIsTrue
    <3>2. CASE answer \notin {"done", "already"}
      BY <1>1, <3>2 DEF Done, With, RecordIsTrue, StepStatus
    <3>. QED BY <3>1, <3>2
  <2>. QED BY <2>1, <2>2, <2>3, ProceedsTruth
<1>. QED BY <1>2, <1>3

LEMMA RunnerStartsTruth ==
    ASSUME TruthInv, NEW j \in Jobs, NEW k \in Slots, RunnerStarts(j, k)
    PROVE  AnswerIsTrue' /\ RecordIsTrue'
<1>. USE DEF TruthInv
<1>1. CASE task[j].status \in TerminalTask
  <2>1. \A o \in Jobs, l \in Slots :
          runner'[o][l] = IF o = j /\ l = k THEN Idle ELSE runner[o][l]
    BY <1>1, OneRunner DEF RunnerStarts
  <2>2. \A o \in Jobs, l \in Slots :
          runner'[o][l].phase \in {"done", "already"} => runner'[o][l] = runner[o][l]
    BY <2>1 DEF Idle
  <2>. QED BY <1>1, <2>2, TruthKept DEF RunnerStarts, RecordIsTrue, Done
<1>2. CASE task[j].status \notin TerminalTask
  <2>1. /\ task[j].step \in [Idx -> StepStatuses]
        /\ \A i \in Done(task[j].step) : Steps[i] \in realm.has
    BY DEF TypeInv, DeployTasksTypeOK, RecordIsTrue, Done
  <2>. QED BY <1>2, <2>1, ProceedsTruth DEF RunnerStarts
<1>. QED BY <1>1, <1>2

LEMMA RunnerDiesTruth ==
    ASSUME TruthInv, NEW j \in Jobs, NEW k \in Slots, RunnerDies(j, k)
    PROVE  AnswerIsTrue' /\ RecordIsTrue'
<1>. USE DEF TruthInv
<1>. DEFINE t == [task[j] EXCEPT !.status = IF @ \in TerminalTask THEN @ ELSE "failed"]
<1>1. \A o \in Jobs, l \in Slots :
        runner'[o][l].phase \in {"done", "already"} => runner'[o][l] = runner[o][l]
  BY OneRunner DEF RunnerDies, Idle
<1>2. task' = [task EXCEPT ![j] = t]
  BY DEF RunnerDies
<1>3. t.step = task[j].step
  BY DEF TypeInv, DeployTasksTypeOK
<1>. QED BY <1>1, <1>2, <1>3, OneTask, TruthKept DEF RunnerDies, RecordIsTrue, Done

LEMMA UpgradeTruth == ASSUME TruthInv, Upgrade PROVE AnswerIsTrue' /\ RecordIsTrue'
<1>. USE DEF TruthInv
<1>1. \A o \in Jobs, l \in Slots : runner'[o][l].phase \notin {"done", "already"}
  BY UpgradeLeaves DEF Idle, Armed
<1>2. realm.has \subseteq realm'.has
  BY RealmKeeps DEF DeployTasksNext
<1>3. ASSUME NEW j \in Jobs, NEW head \in Jobs
      PROVE  Done(AfterUpgrade(j, head).step) \subseteq Done(task[j].step)
  BY DEF AfterUpgrade, Again, Done, With
<1>4. \A o \in Jobs : \A i \in Done(task'[o].step) : Steps[i] \in realm.has
  BY <1>3, UpgradeLeaves DEF RecordIsTrue, Done
<1>. QED BY <1>1, <1>2, <1>4, TruthKept

LEMMA TruthInvNext == TruthInv /\ [DeployTasksNext]_vars => TruthInv'
<1>. SUFFICES ASSUME TruthInv, [DeployTasksNext]_vars PROVE AnswerIsTrue' /\ RecordIsTrue'
  BY TypeInvNext DEF TruthInv
<1>1. CASE UNCHANGED vars
  BY <1>1 DEF vars, TruthInv, AnswerIsTrue, RecordIsTrue
<1>2. ASSUME NEW j \in Jobs, Build(j) \/ Resume(j) PROVE AnswerIsTrue' /\ RecordIsTrue'
  BY <1>2, BuildTruth, ResumeTruth
<1>3. ASSUME NEW j \in Jobs, NEW k \in Slots, RunnerStep(j, k) \/ RunnerDies(j, k)
      PROVE  AnswerIsTrue' /\ RecordIsTrue'
  BY <1>3, RunnerStartsTruth, StageIsReadTruth, RealmRunsTruth, RunnerResumesTruth,
     RunnerDiesTruth DEF RunnerStep
<1>4. ASSUME DeployTasksNext, UNCHANGED <<task, runner>> PROVE AnswerIsTrue' /\ RecordIsTrue'
  <2>1. realm.has \subseteq realm'.has
    BY <1>4, RealmKeeps DEF TruthInv
  <2>. QED BY <1>4, <2>1 DEF TruthInv, AnswerIsTrue, RecordIsTrue
<1>5. ASSUME NEW j \in Jobs, Beside(j) PROVE UNCHANGED <<task, runner>>
  BY <1>5 DEF Beside, Register, Reconcile, FailFromOutside, RetryDeployment
<1>6. Launch => UNCHANGED <<task, runner>>
  BY DEF Launch
<1>. QED BY <1>1, <1>2, <1>3, <1>4, <1>5, <1>6, UpgradeTruth DEF DeployTasksNext, Beside

(* A step that is said to be completed was done to the realm, through      *)
(* retries, early resumes, upgrades and tasks that take over from one      *)
(* another.                                                                *)
THEOREM RecordsAreTrue == DeployTasksSpec => []RecordIsTrue
<1>1. DeployTasksInit => TruthInv
  BY TypeInvInit
     DEF DeployTasksInit, TruthInv, AnswerIsTrue, RecordIsTrue, NoTask, Fresh, Idle, With
<1>2. DeployTasksSpec => []TruthInv
  BY <1>1, TruthInvNext, PTL DEF DeployTasksSpec
<1>. QED BY <1>2, PTL DEF TruthInv

----------------------------------------------------------------------------
(* The order of a deployment, when no task is resumed while one of its     *)
(* runners is suspended.                                                   *)

NoHaste == "hasty_resume" \notin Faults

(* A task has one runner at most, only while it is unfinished, and what is *)
(* recorded as running is the step the runner is in.                       *)
OneRunnerEach(j) ==
    /\ \A k, l \in Slots :
         runner[j][k].phase # "idle" /\ runner[j][l].phase # "idle" => k = l
    /\ \A k \in Slots :
         /\ runner[j][k].phase # "idle" => task[j].status \in {"queued", "running"}
         /\ runner[j][k].phase \in {"armed", "delayed"} => With(task[j].step, "running") = {}
         /\ runner[j][k].phase \in Suspended =>
                With(task[j].step, "running") = {runner[j][k].at}

Ordered(j) ==
    /\ OneRunnerEach(j)
    /\ task[j].status = "none" => Done(task[j].step) = {}

(* When a job is registered, or a registration of it is under way, each    *)
(* step its realm cannot live without is completed.                        *)
Filed(j) == filing[j] > 0 \/ job[j] \in {"registering", "completed"}
Bootstrapped(j) == \A i \in Idx : IsBootstrap(i) => task[j].step[i] = "completed"
Finished == \A j \in Jobs : Filed(j) => Bootstrapped(j)

(* A realm is named when it is registered, and launched when it is named.  *)
RealmOrdered ==
    /\ realm.named => \A i \in Idx : IsBootstrap(i) => Steps[i] \in realm.has
    /\ realm.launched => realm.named

OrderInv == TruthInv /\ RealmOrdered /\ Finished /\ \A j \in Jobs : Ordered(j)

(* What the action of one job keeps for the others.                        *)
OthersKept(j) ==
    \A o \in Jobs \ {j} : task'[o] = task[o] /\ runner'[o] = runner[o]

LEMMA OthersOrdered ==
    ASSUME OrderInv, NEW j \in Jobs, OthersKept(j), Ordered(j)'
    PROVE  \A o \in Jobs : Ordered(o)'
<1>1. ASSUME NEW o \in Jobs \ {j} PROVE Ordered(o)'
  BY <1>1 DEF OrderInv, OthersKept, Ordered, OneRunnerEach, Done, With
<1>. QED BY <1>1

LEMMA RunnersOf ==
    ASSUME TypeInv, NEW j \in Jobs, NEW k \in Slots, NEW r,
           runner' = [runner EXCEPT ![j][k] = r]
    PROVE  /\ \A l \in Slots : runner'[j][l] = IF l = k THEN r ELSE runner[j][l]
           /\ \A o \in Jobs \ {j} : runner'[o] = runner[o]
BY DEF TypeInv, DeployTasksTypeOK

(* A task that is queued with no runner and no step said to be running.    *)
LEMMA ArmOrder ==
    ASSUME OrderInv, NEW j \in Jobs, InFlight(j) = {}, Arm(j), NEW s,
           With(s, "running") = {},
           task' = [task EXCEPT ![j] = [status |-> "queued", step |-> s]]
    PROVE  \A o \in Jobs : Ordered(o)'
<1>. USE DEF OrderInv, TruthInv
<1>1. PICK k \in Slots : runner' = [runner EXCEPT ![j][k] = Armed]
  BY DEF Arm
<1>2. /\ \A l \in Slots : runner'[j][l] = IF l = k THEN Armed ELSE runner[j][l]
      /\ \A o \in Jobs \ {j} : runner'[o] = runner[o]
  BY <1>1, RunnersOf
<1>3. \A l \in Slots : runner[j][l].phase = "idle"
  BY DEF InFlight
<1>4. /\ task'[j].status = "queued"
      /\ task'[j].step = s
      /\ \A o \in Jobs \ {j} : task'[o] = task[o]
  BY DEF TypeInv, DeployTasksTypeOK
<1>5. OneRunnerEach(j)'
  BY <1>2, <1>3, <1>4 DEF OneRunnerEach, Armed, Suspended, Answers
<1>6. Ordered(j)'
  BY <1>4, <1>5 DEF Ordered
<1>. QED BY <1>2, <1>4, <1>6, OthersOrdered DEF OthersKept

LEMMA NothingOrdered ==
    ASSUME OrderInv, UNCHANGED <<task, runner>> PROVE \A o \in Jobs : Ordered(o)'
BY DEF OrderInv, Ordered, OneRunnerEach, Done, With

LEMMA BuildOrder ==
    ASSUME OrderInv, NEW j \in Jobs, Build(j) PROVE \A o \in Jobs : Ordered(o)'
<1>1. CASE UNCHANGED <<task, runner>>
  BY <1>1, NothingOrdered
<1>2. ASSUME NEW s, With(s, "running") = {}, Arm(j),
             task' = [task EXCEPT ![j] = [status |-> "queued", step |-> s]]
      PROVE  \A o \in Jobs : Ordered(o)'
  <2>1. InFlight(j) = {}
    BY DEF Build, OrderInv, Ordered, OneRunnerEach, InFlight
  <2>. QED BY <1>2, <2>1, ArmOrder
<1>3. With(Fresh, "running") = {}
  BY DEF With, Fresh
<1>4. ASSUME NEW done PROVE With(Kept(done), "running") = {}
  BY DEF With, Kept
<1>. QED BY <1>1, <1>2, <1>3, <1>4 DEF Build

LEMMA ResumeOrder ==
    ASSUME NoHaste, OrderInv, NEW j \in Jobs, Resume(j) PROVE \A o \in Jobs : Ordered(o)'
<1>. DEFINE reset == StepsToReset(task[j].step, With(task[j].step, "running"))
            s == [i \in Idx |-> IF i \in reset THEN "pending" ELSE task[j].step[i]]
<1>1. task' = [task EXCEPT ![j] = [status |-> "queued", step |-> s]]
  BY DEF Resume, NoHaste
<1>2. With(s, "running") = {}
  BY DEF With, StepsToReset
<1>3. InFlight(j) = {} /\ Arm(j)
  BY DEF Resume, NoHaste
<1>. HIDE DEF s
<1>. QED BY <1>1, <1>2, <1>3, ArmOrder

(* The way on of the only runner of a task.                                *)
LEMMA ProceedsOrder ==
    ASSUME OrderInv, NEW j \in Jobs, NEW k \in Slots, runner[j][k].phase # "idle",
           NEW status \in {"queued", "running"}, NEW s \in [Idx -> StepStatuses],
           With(s, "running") = {}, Proceeds(j, k, status, s)
    PROVE  \A o \in Jobs : Ordered(o)'
<1>. USE DEF OrderInv, TruthInv
<1>1. \A l \in Slots \ {k} : runner[j][l].phase = "idle"
  BY DEF Ordered, OneRunnerEach
<1>2. CASE With(s, "pending") = {}
  <2>1. /\ task' = [task EXCEPT ![j] = [status |-> Verdict(s), step |-> s]]
        /\ runner' = [runner EXCEPT ![j][k] = Idle]
    BY <1>2 DEF Proceeds
  <2>2. /\ task'[j].status = Verdict(s) /\ task'[j].step = s
        /\ \A o \in Jobs \ {j} : task'[o] = task[o]
    BY <2>1 DEF TypeInv, DeployTasksTypeOK
  <2>3. /\ \A l \in Slots : runner'[j][l] = IF l = k THEN Idle ELSE runner[j][l]
        /\ \A o \in Jobs \ {j} : runner'[o] = runner[o]
    BY <2>1, RunnersOf
  <2>4. \A l \in Slots : runner'[j][l].phase = "idle"
    BY <1>1, <2>3 DEF Idle
  <2>5. OneRunnerEach(j)'
    BY <2>4 DEF OneRunnerEach, Suspended, Answers
  <2>6. Ordered(j)'
    BY <2>2, <2>5, VerdictType DEF Ordered, TerminalTask
  <2>. QED BY <2>2, <2>3, <2>6, OthersOrdered DEF OthersKept
<1>3. CASE With(s, "pending") # {}
  <2>1. PICK next \in With(s, "pending") :
          /\ task' = [task EXCEPT ![j] = [status |-> status,
                                          step |-> [s EXCEPT ![next] = "running"]]]
          /\ runner' = [runner EXCEPT ![j][k] =
                [phase |-> FirstCall(next), at |-> next]]
    BY <1>3 DEF Proceeds
  <2>2. /\ task'[j].status = status /\ task'[j].step = [s EXCEPT ![next] = "running"]
        /\ \A o \in Jobs \ {j} : task'[o] = task[o]
    BY <2>1 DEF TypeInv, DeployTasksTypeOK
  <2>3. PICK r : /\ r.phase \in {"checking", "asking"} /\ r.at = next
                 /\ runner' = [runner EXCEPT ![j][k] = r]
    <3>. DEFINE r == [phase |-> FirstCall(next), at |-> next]
    <3>1. r.phase \in {"checking", "asking"} /\ r.at = next
      BY DEF FirstCall
    <3>2. runner' = [runner EXCEPT ![j][k] = r]
      BY <2>1
    <3>. HIDE DEF r
    <3>. QED BY <3>1, <3>2
  <2>4. /\ \A l \in Slots : runner'[j][l] = IF l = k THEN r ELSE runner[j][l]
        /\ \A o \in Jobs \ {j} : runner'[o] = runner[o]
    BY <2>3, RunnersOf
  <2>5. With(task'[j].step, "running") = {next}
    BY <2>2 DEF With
  <2>6. /\ \A l \in Slots \ {k} : runner'[j][l].phase = "idle"
        /\ runner'[j][k].phase \in {"checking", "asking"} /\ runner'[j][k].at = next
    BY <1>1, <2>3, <2>4
  <2>7. OneRunnerEach(j)'
    BY <2>2, <2>5, <2>6 DEF OneRunnerEach, Suspended, Answers
  <2>8. Ordered(j)'
    BY <2>2, <2>7 DEF Ordered
  <2>. QED BY <2>2, <2>4, <2>8, OthersOrdered DEF OthersKept
<1>. QED BY <1>2, <1>3

LEMMA RunnerStartsOrder ==
    ASSUME OrderInv, NEW j \in Jobs, NEW k \in Slots, RunnerStarts(j, k)
    PROVE  \A o \in Jobs : Ordered(o)'
<1>1. /\ runner[j][k].phase \in {"armed", "delayed"}
      /\ task[j].status \in {"queued", "running"}
      /\ With(task[j].step, "running") = {}
  BY DEF RunnerStarts, OrderInv, Ordered, OneRunnerEach
<1>2. task[j].step \in [Idx -> StepStatuses]
  BY DEF OrderInv, TruthInv, TypeInv, DeployTasksTypeOK
<1>3. Proceeds(j, k, "running", task[j].step)
  BY <1>1 DEF RunnerStarts, TerminalTask
<1>. QED BY <1>1, <1>2, <1>3, ProceedsOrder

LEMMA AnsweredOrder ==
    ASSUME OrderInv, NEW j \in Jobs, NEW k \in Slots, runner[j][k].phase \in Suspended,
           NEW answer \in Suspended, Answered(j, k, answer), UNCHANGED task
    PROVE  \A o \in Jobs : Ordered(o)'
<1>1. \A o \in Jobs, l \in Slots :
        runner'[o][l] = IF o = j /\ l = k THEN [phase |-> answer, at |-> runner[j][k].at]
                        ELSE runner[o][l]
  BY AnsweredTruth DEF OrderInv, TruthInv
<1>2. /\ runner'[j][k].phase \in Suspended /\ runner'[j][k].at = runner[j][k].at
      /\ \A l \in Slots \ {k} : runner'[j][l] = runner[j][l]
  BY <1>1
<1>3. OneRunnerEach(j)'
  BY <1>2 DEF OrderInv, Ordered, OneRunnerEach, Suspended, Answers
<1>4. Ordered(j)'
  BY <1>3 DEF OrderInv, Ordered
<1>5. \A o \in Jobs \ {j} : runner'[o] = runner[o]
  BY DEF Answered, OrderInv, TruthInv, TypeInv, DeployTasksTypeOK
<1>. QED BY <1>4, <1>5, OthersOrdered DEF OthersKept

LEMMA RunnerResumesOrder ==
    ASSUME OrderInv, NEW j \in Jobs, NEW k \in Slots, RunnerResumes(j, k)
    PROVE  \A o \in Jobs : Ordered(o)'
<1>. USE DEF OrderInv, TruthInv
<1>. DEFINE i == runner[j][k].at
            answer == runner[j][k].phase
            Recorded(status) == [task[j].step EXCEPT ![i] = status]
<1>1. /\ i \in Idx
      /\ task[j] \in Tasks
      /\ task[j].step \in [Idx -> StepStatuses]
  BY DEF RunnerResumes, TypeInv, DeployTasksTypeOK, AtStep, Suspended, Tasks
<1>2. /\ answer # "idle"
      /\ task[j].status \in {"queued", "running"}
      /\ With(task[j].step, "running") = {i}
  BY DEF RunnerResumes, Ordered, OneRunnerEach, Suspended, Answers
<1>3. ASSUME NEW status \in {"pending", "completed", "failed"}
      PROVE  Recorded(status) \in [Idx -> StepStatuses] /\ With(Recorded(status), "running") = {}
  BY <1>1, <1>2 DEF With, StepStatuses
<1>4. CASE MayRetry(answer, retried[j][i])
  <2>1. /\ task' = [task EXCEPT ![j] = [task[j] EXCEPT !.step = Recorded("pending")]]
        /\ runner' = [runner EXCEPT ![j][k] = Delayed]
    BY <1>4 DEF RunnerResumes
  <2>2. /\ task'[j].status = task[j].status /\ task'[j].step = Recorded("pending")
        /\ \A o \in Jobs \ {j} : task'[o] = task[o]
    <3>1. LET t == [task[j] EXCEPT !.step = Recorded("pending")]
          IN  t.status = task[j].status /\ t.step = Recorded("pending")
      BY <1>1 DEF Tasks
    <3>. QED BY <2>1, <3>1 DEF TypeInv, DeployTasksTypeOK
  <2>3. /\ \A l \in Slots : runner'[j][l] = IF l = k THEN Delayed ELSE runner[j][l]
        /\ \A o \in Jobs \ {j} : runner'[o] = runner[o]
    BY <2>1, RunnersOf
  <2>4. /\ runner'[j][k].phase = "delayed"
        /\ \A l \in Slots \ {k} : runner'[j][l].phase = "idle"
    BY <1>2, <2>3 DEF Ordered, OneRunnerEach, Delayed
  <2>5. OneRunnerEach(j)'
    BY <1>2, <1>3, <2>2, <2>4 DEF OneRunnerEach, Suspended, Answers
  <2>6. Ordered(j)'
    BY <1>2, <2>2, <2>5 DEF Ordered
  <2>. QED BY <2>2, <2>3, <2>6, OthersOrdered DEF OthersKept
<1>5. CASE ~ MayRetry(answer, retried[j][i])
  <2>1. Proceeds(j, k, task[j].status, Recorded(StepStatus(answer)))
    BY <1>5 DEF RunnerResumes
  <2>2. StepStatus(answer) \in {"pending", "completed", "failed"}
    BY DEF StepStatus
  <2>. QED BY <1>2, <1>3, <2>1, <2>2, ProceedsOrder
<1>. QED BY <1>4, <1>5

LEMMA RunnerDiesOrder ==
    ASSUME OrderInv, NEW j \in Jobs, NEW k \in Slots, RunnerDies(j, k)
    PROVE  \A o \in Jobs : Ordered(o)'
<1>. USE DEF OrderInv, TruthInv
<1>. DEFINE t == [task[j] EXCEPT !.status = IF @ \in TerminalTask THEN @ ELSE "failed"]
<1>1. runner[j][k].phase # "idle" /\ task[j].status \in {"queued", "running"}
  BY DEF RunnerDies, Answers, Ordered, OneRunnerEach
<1>2. /\ \A l \in Slots : runner'[j][l] = IF l = k THEN Idle ELSE runner[j][l]
      /\ \A o \in Jobs \ {j} : runner'[o] = runner[o]
  BY RunnersOf DEF RunnerDies
<1>3. \A l \in Slots : runner'[j][l].phase = "idle"
  BY <1>1, <1>2 DEF Ordered, OneRunnerEach, Idle
<1>4. task' = [task EXCEPT ![j] = t]
  BY DEF RunnerDies
<1>5. t.status = "failed"
  BY <1>1 DEF TypeInv, DeployTasksTypeOK, TerminalTask
<1>6. task'[j].status = "failed" /\ \A o \in Jobs \ {j} : task'[o] = task[o]
  BY <1>4, <1>5 DEF TypeInv, DeployTasksTypeOK
<1>7. Ordered(j)'
  BY <1>3, <1>6 DEF Ordered, OneRunnerEach, Suspended, Answers
<1>. QED BY <1>2, <1>6, <1>7, OthersOrdered DEF OthersKept

LEMMA BesideOrder ==
    ASSUME OrderInv, NEW j \in Jobs, Beside(j) PROVE \A o \in Jobs : Ordered(o)'
BY NothingOrdered DEF Beside, Register, Reconcile, FailFromOutside, RetryDeployment

LEMMA UpgradeOrder == ASSUME OrderInv, Upgrade PROVE \A o \in Jobs : Ordered(o)'
<1>. USE DEF OrderInv, TruthInv
<1>1. CASE Heads = {}
  <2>1. runner' = [j \in Jobs |-> [k \in Slots |-> Idle]] /\ UNCHANGED task
    BY <1>1 DEF Upgrade, ResumeInFlight
  <2>2. \A o \in Jobs : OneRunnerEach(o)'
    BY <2>1 DEF OneRunnerEach, Idle, Suspended, Answers
  <2>. QED BY <2>1, <2>2 DEF Ordered, Done, With
<1>2. CASE Heads # {}
  <2>1. PICK head \in Heads :
          /\ runner' = [j \in Jobs |-> [k \in Slots |-> IF j = head /\ k = 1 THEN Armed ELSE Idle]]
          /\ task' = [j \in Jobs |-> AfterUpgrade(j, head)]
    BY <1>2 DEF Upgrade, ResumeInFlight
  <2>2. ASSUME NEW o \in Jobs, o = head PROVE Ordered(o)'
    <3>1. task'[o].status = "queued" /\ task'[o].step = Again(task[o].step)
      BY <2>1, <2>2 DEF AfterUpgrade
    <3>2. With(task'[o].step, "running") = {}
      BY <3>1 DEF With, Again
    <3>3. \A k \in Slots : runner'[o][k] = IF k = 1 THEN Armed ELSE Idle
      BY <2>1, <2>2
    <3>4. OneRunnerEach(o)'
      BY <3>1, <3>2, <3>3 DEF OneRunnerEach, Armed, Idle, Suspended, Answers
    <3>. QED BY <3>1, <3>4 DEF Ordered
  <2>3. ASSUME NEW o \in Jobs, o # head PROVE Ordered(o)'
    <3>1. \A k \in Slots : runner'[o][k] = Idle
      BY <2>1, <2>3
    <3>2. OneRunnerEach(o)'
      BY <3>1 DEF OneRunnerEach, Idle, Suspended, Answers
    <3>3. task'[o] = task[o] \/ task'[o].status = "waiting"
      BY <2>1, <2>3 DEF AfterUpgrade
    <3>. QED BY <3>2, <3>3 DEF Ordered, Done, With
  <2>. QED BY <2>2, <2>3
<1>. QED BY <1>1, <1>2

----------------------------------------------------------------------------
(* A completed step stays completed.                                       *)

StepsStay == \A j \in Jobs : Done(task[j].step) \subseteq Done(task'[j].step)

LEMMA OneTaskStays ==
    ASSUME TypeInv, NEW j \in Jobs, NEW t, task' = [task EXCEPT ![j] = t],
           Done(task[j].step) \subseteq Done(t.step)
    PROVE  StepsStay
BY OneTask DEF StepsStay

LEMMA ProceedsStays ==
    ASSUME TypeInv, NEW j \in Jobs, NEW k \in Slots, NEW status,
           NEW s \in [Idx -> StepStatuses], Proceeds(j, k, status, s),
           Done(task[j].step) \subseteq Done(s)
    PROVE  StepsStay
<1>1. CASE With(s, "pending") = {}
  <2>. DEFINE t == [status |-> Verdict(s), step |-> s]
  <2>1. task' = [task EXCEPT ![j] = t] /\ t.step = s
    BY <1>1 DEF Proceeds
  <2>. HIDE DEF t
  <2>. QED BY <2>1, OneTaskStays
<1>2. CASE With(s, "pending") # {}
  <2>1. PICK next \in With(s, "pending") :
          task' = [task EXCEPT ![j] = [status |-> status, step |-> [s EXCEPT ![next] = "running"]]]
    BY <1>2 DEF Proceeds
  <2>. DEFINE t == [status |-> status, step |-> [s EXCEPT ![next] = "running"]]
  <2>2. task' = [task EXCEPT ![j] = t] /\ t.step = [s EXCEPT ![next] = "running"]
    BY <2>1
  <2>3. Done(s) \subseteq Done([s EXCEPT ![next] = "running"])
    BY DEF Done, With
  <2>. HIDE DEF t
  <2>. QED BY <2>2, <2>3, OneTaskStays
<1>. QED BY <1>1, <1>2

LEMMA BuildStays == ASSUME OrderInv, NEW j \in Jobs, Build(j) PROVE StepsStay
<1>1. task' = task \/ \E t : task' = [task EXCEPT ![j] = t]
  BY DEF Build
<1>2. Done(task[j].step) = {}
  BY DEF Build, OrderInv, Ordered
<1>. QED BY <1>1, <1>2, OneTaskStays DEF OrderInv, TruthInv, StepsStay

LEMMA ResumeStays == ASSUME TypeInv, NEW j \in Jobs, Resume(j) PROVE StepsStay
<1>1. PICK stale : task' = [task EXCEPT ![j] =
          [status |-> "queued",
           step |-> [i \in Idx |-> IF i \in StepsToReset(task[j].step, stale)
                                  THEN "pending" ELSE task[j].step[i]]]]
  BY DEF Resume
<1>. DEFINE t == [status |-> "queued",
                  step |-> [i \in Idx |-> IF i \in StepsToReset(task[j].step, stale)
                                         THEN "pending" ELSE task[j].step[i]]]
<1>2. task' = [task EXCEPT ![j] = t]
  BY <1>1
<1>3. Done(task[j].step) \subseteq Done(t.step)
  BY DEF Done, With, StepsToReset
<1>. HIDE DEF t
<1>. QED BY <1>2, <1>3, OneTaskStays

LEMMA RunnerStartsStays ==
    ASSUME TypeInv, NEW j \in Jobs, NEW k \in Slots, RunnerStarts(j, k) PROVE StepsStay
<1>1. CASE task[j].status \in TerminalTask
  BY <1>1 DEF RunnerStarts, StepsStay
<1>2. CASE task[j].status \notin TerminalTask
  <2>1. task[j].step \in [Idx -> StepStatuses]
    BY DEF TypeInv, DeployTasksTypeOK
  <2>. QED BY <1>2, <2>1, ProceedsStays DEF RunnerStarts
<1>. QED BY <1>1, <1>2

(* The step whose answer is recorded was not completed, since it is        *)
(* recorded as running.                                                    *)
LEMMA RunnerResumesStays ==
    ASSUME OrderInv, NEW j \in Jobs, NEW k \in Slots, RunnerResumes(j, k) PROVE StepsStay
<1>. USE DEF OrderInv, TruthInv
<1>. DEFINE i == runner[j][k].at
            answer == runner[j][k].phase
            Recorded(status) == [task[j].step EXCEPT ![i] = status]
<1>1. /\ i \in Idx
      /\ task[j] \in Tasks
      /\ task[j].step \in [Idx -> StepStatuses]
  BY DEF RunnerResumes, TypeInv, DeployTasksTypeOK, AtStep, Suspended, Tasks
<1>2. With(task[j].step, "running") = {i}
  BY DEF RunnerResumes, Ordered, OneRunnerEach, Suspended
<1>3. ASSUME NEW status \in StepStatuses
      PROVE  /\ Recorded(status) \in [Idx -> StepStatuses]
             /\ Done(task[j].step) \subseteq Done(Recorded(status))
  BY <1>1, <1>2 DEF Done, With
<1>4. CASE MayRetry(answer, retried[j][i])
  <2>. DEFINE t == [task[j] EXCEPT !.step = Recorded("pending")]
  <2>1. task' = [task EXCEPT ![j] = t]
    BY <1>4 DEF RunnerResumes
  <2>2. t.step = Recorded("pending")
    BY <1>1 DEF Tasks
  <2>3. Done(task[j].step) \subseteq Done(t.step)
    BY <1>3, <2>2 DEF StepStatuses
  <2>. HIDE DEF t
  <2>. QED BY <2>1, <2>3, OneTaskStays
<1>5. CASE ~ MayRetry(answer, retried[j][i])
  <2>1. Proceeds(j, k, task[j].status, Recorded(StepStatus(answer)))
    BY <1>5 DEF RunnerResumes
  <2>2. StepStatus(answer) \in StepStatuses
    BY DEF StepStatus, StepStatuses
  <2>. QED BY <1>3, <2>1, <2>2, ProceedsStays
<1>. QED BY <1>4, <1>5

LEMMA RunnerDiesStays ==
    ASSUME TypeInv, NEW j \in Jobs, NEW k \in Slots, RunnerDies(j, k) PROVE StepsStay
<1>. DEFINE t == [task[j] EXCEPT !.status = IF @ \in TerminalTask THEN @ ELSE "failed"]
<1>1. task' = [task EXCEPT ![j] = t]
  BY DEF RunnerDies
<1>2. t.step = task[j].step
  BY DEF TypeInv, DeployTasksTypeOK
<1>. HIDE DEF t
<1>. QED BY <1>1, <1>2, OneTaskStays

LEMMA UpgradeStays == ASSUME TypeInv, Upgrade PROVE StepsStay
<1>1. ASSUME NEW j \in Jobs, NEW head \in Jobs
      PROVE  Done(task[j].step) \subseteq Done(AfterUpgrade(j, head).step)
  BY DEF AfterUpgrade, Again, Done, With
<1>. QED BY <1>1, UpgradeLeaves DEF StepsStay

LEMMA StepsStayNext == ASSUME OrderInv, DeployTasksNext PROVE StepsStay
<1>. USE DEF OrderInv, TruthInv
<1>1. CASE task' = task
  BY <1>1 DEF StepsStay
<1>2. ASSUME NEW j \in Jobs, Build(j) \/ Resume(j) \/ Beside(j) PROVE StepsStay
  BY <1>1, <1>2, BuildStays, ResumeStays
     DEF Beside, Register, Reconcile, FailFromOutside, RetryDeployment
<1>3. ASSUME NEW j \in Jobs, NEW k \in Slots, RunnerStep(j, k) \/ RunnerDies(j, k)
      PROVE  StepsStay
  BY <1>1, <1>3, RunnerStartsStays, RunnerResumesStays, RunnerDiesStays
     DEF RunnerStep, StageIsRead, RealmRuns
<1>. QED BY <1>1, <1>2, <1>3, UpgradeStays DEF DeployTasksNext, Beside, Launch

----------------------------------------------------------------------------
(* What is filed for registration is bootstrapped, and stays so.           *)

FiledAfter == \A o \in Jobs : Filed(o)' => Filed(o) \/ Bootstrapped(o)'

LEMMA NothingFiled ==
    ASSUME UNCHANGED filing,
           \A o \in Jobs : job'[o] \in {"registering", "completed"} => job'[o] = job[o]
    PROVE  FiledAfter
BY DEF FiledAfter, Filed

(* A task ends with its job filed only if each bootstrap step is           *)
(* completed, once none of them is running or pending.                     *)
LEMMA ProceedsFiles ==
    ASSUME TypeInv, NEW j \in Jobs, NEW k \in Slots, NEW status,
           NEW s \in [Idx -> StepStatuses], With(s, "running") = {}, Proceeds(j, k, status, s)
    PROVE  FiledAfter
<1>1. CASE With(s, "pending") = {}
  <2>1. /\ task' = [task EXCEPT ![j] = [status |-> Verdict(s), step |-> s]]
        /\ job' = [job EXCEPT ![j] = JobAfter(s)]
        /\ filing' = [filing EXCEPT ![j] =
                          IF JobAfter(s) = "registering" THEN filing[j] + 1 ELSE filing[j]]
    BY <1>1 DEF Proceeds, Files
  <2>2. /\ task'[j].step = s
        /\ job'[j] = JobAfter(s)
        /\ JobAfter(s) # "registering" => filing'[j] = filing[j]
        /\ \A o \in Jobs \ {j} : job'[o] = job[o] /\ filing'[o] = filing[o]
    BY <2>1 DEF TypeInv, DeployTasksTypeOK
  <2>3. JobAfter(s) = "registering" => \A i \in Idx : IsBootstrap(i) => s[i] = "completed"
    BY <1>1 DEF JobAfter, BrokenBootstrap, With, StepStatuses
  <2>4. JobAfter(s) # "registering" => JobAfter(s) = "failed"
    BY DEF JobAfter
  <2>. QED BY <2>2, <2>3, <2>4 DEF FiledAfter, Filed, Bootstrapped
<1>2. CASE With(s, "pending") # {}
  BY <1>2, NothingFiled DEF Proceeds
<1>. QED BY <1>1, <1>2

LEMMA RunnerStartsFiles ==
    ASSUME OrderInv, NEW j \in Jobs, NEW k \in Slots, RunnerStarts(j, k) PROVE FiledAfter
<1>1. /\ With(task[j].step, "running") = {}
      /\ task[j].step \in [Idx -> StepStatuses]
  BY DEF RunnerStarts, OrderInv, TruthInv, TypeInv, DeployTasksTypeOK, Ordered, OneRunnerEach
<1>2. CASE task[j].status \in TerminalTask
  BY <1>2, NothingFiled DEF RunnerStarts
<1>3. CASE task[j].status \notin TerminalTask
  BY <1>1, <1>3, ProceedsFiles DEF RunnerStarts, OrderInv, TruthInv
<1>. QED BY <1>2, <1>3

LEMMA RunnerResumesFiles ==
    ASSUME OrderInv, NEW j \in Jobs, NEW k \in Slots, RunnerResumes(j, k) PROVE FiledAfter
<1>. USE DEF OrderInv, TruthInv
<1>. DEFINE i == runner[j][k].at
            answer == runner[j][k].phase
            Recorded(status) == [task[j].step EXCEPT ![i] = status]
<1>1. /\ i \in Idx
      /\ task[j].step \in [Idx -> StepStatuses]
      /\ With(task[j].step, "running") = {i}
  BY DEF RunnerResumes, TypeInv, DeployTasksTypeOK, AtStep, Suspended, Ordered, OneRunnerEach
<1>2. /\ Recorded(StepStatus(answer)) \in [Idx -> StepStatuses]
      /\ With(Recorded(StepStatus(answer)), "running") = {}
  BY <1>1 DEF StepStatus, StepStatuses, With
<1>3. CASE MayRetry(answer, retried[j][i])
  BY <1>3, NothingFiled DEF RunnerResumes
<1>4. CASE ~ MayRetry(answer, retried[j][i])
  BY <1>2, <1>4, ProceedsFiles DEF RunnerResumes
<1>. QED BY <1>3, <1>4

LEMMA RegisterFiles ==
    ASSUME TypeInv, NEW j \in Jobs, Register(j) PROVE FiledAfter
<1>1. /\ Filed(j)
      /\ \A o \in Jobs \ {j} : job'[o] = job[o] /\ filing'[o] = filing[o]
  BY DEF Register, Filed, TypeInv, DeployTasksTypeOK
<1>. QED BY <1>1 DEF FiledAfter, Filed

LEMMA FiledAfterNext == ASSUME OrderInv, DeployTasksNext PROVE FiledAfter
<1>. USE DEF OrderInv, TruthInv
<1>1. ASSUME NEW j \in Jobs, NEW status \in {"extensions", "failed", "provisioning"},
             job' = [job EXCEPT ![j] = status], UNCHANGED filing
      PROVE  FiledAfter
  BY <1>1, NothingFiled DEF TypeInv, DeployTasksTypeOK
<1>2. ASSUME NEW j \in Jobs, Build(j) \/ Resume(j) \/ Beside(j) PROVE FiledAfter
  BY <1>1, <1>2, RegisterFiles
     DEF Build, Resume, Beside, Reconcile, FailFromOutside, RetryDeployment
<1>3. ASSUME NEW j \in Jobs, NEW k \in Slots, RunnerStep(j, k) \/ RunnerDies(j, k)
      PROVE  FiledAfter
  BY <1>3, NothingFiled, RunnerStartsFiles, RunnerResumesFiles
     DEF RunnerStep, RunnerDies, StageIsRead, RealmRuns
<1>4. Launch => FiledAfter
  BY NothingFiled DEF Launch
<1>5. Upgrade => FiledAfter
  BY DEF Upgrade, FiledAfter, Filed
<1>. QED BY <1>2, <1>3, <1>4, <1>5 DEF DeployTasksNext, Beside

LEMMA FinishedNext == ASSUME OrderInv, DeployTasksNext PROVE Finished'
<1>1. StepsStay /\ FiledAfter
  BY StepsStayNext, FiledAfterNext
<1>. QED
  BY <1>1 DEF StepsStay, FiledAfter, OrderInv, Finished, Bootstrapped, Done, With

(* Naming follows the bootstrap, and the launch follows the naming.        *)
LEMMA RealmOrderedNext == ASSUME OrderInv, DeployTasksNext PROVE RealmOrdered'
<1>. USE DEF OrderInv, TruthInv
<1>1. realm.has \subseteq realm'.has
  BY RealmKeeps
<1>2. realm \in Realms
  BY DEF Realms, TypeInv, DeployTasksTypeOK
<1>3. \/ realm'.named = realm.named /\ realm'.launched = realm.launched
      \/ realm'.launched = realm.launched /\ \E j \in Jobs : filing[j] > 0
      \/ realm'.named = realm.named /\ realm.named
  BY <1>2, RealmSteps DEF RealmChanges, Realms
<1>4. ASSUME NEW j \in Jobs, filing[j] > 0
      PROVE  \A i \in Idx : IsBootstrap(i) => Steps[i] \in realm.has
  BY <1>4 DEF Finished, Filed, Bootstrapped, RecordIsTrue, With
<1>5. realm'.named => \A i \in Idx : IsBootstrap(i) => Steps[i] \in realm'.has
  BY <1>1, <1>3, <1>4 DEF RealmOrdered
<1>6. realm'.launched => realm'.named
  <2>1. realm.named => realm'.named
    BY <1>2, RealmSteps DEF RealmChanges, Realms
  <2>. QED BY <1>3, <2>1 DEF RealmOrdered
<1>. QED BY <1>5, <1>6 DEF RealmOrdered

LEMMA OrderInvNext ==
    ASSUME NoHaste PROVE OrderInv /\ [DeployTasksNext]_vars => OrderInv'
<1>. SUFFICES ASSUME OrderInv, [DeployTasksNext]_vars PROVE OrderInv'
  OBVIOUS
<1>1. TruthInv'
  BY TruthInvNext DEF OrderInv
<1>2. CASE UNCHANGED vars
  <2>1. \A o \in Jobs : Ordered(o)'
    BY <1>2, NothingOrdered DEF vars
  <2>. QED BY <1>1, <1>2, <2>1 DEF vars, OrderInv, RealmOrdered, Finished, Filed, Bootstrapped
<1>3. CASE DeployTasksNext
  <2>1. ASSUME NEW j \in Jobs, Build(j) \/ Resume(j) \/ Beside(j)
        PROVE  \A o \in Jobs : Ordered(o)'
    BY <2>1, BuildOrder, ResumeOrder, BesideOrder
  <2>2. ASSUME NEW j \in Jobs, NEW k \in Slots, StageIsRead(j, k) \/ RealmRuns(j, k)
        PROVE  \A o \in Jobs : Ordered(o)'
    <3>1. /\ runner[j][k].phase \in Suspended
          /\ \E answer \in Suspended : Answered(j, k, answer)
          /\ UNCHANGED task
      BY <2>2 DEF StageIsRead, RealmRuns, Suspended, Answers
    <3>. QED BY <3>1, AnsweredOrder
  <2>3. ASSUME NEW j \in Jobs, NEW k \in Slots, RunnerStep(j, k) \/ RunnerDies(j, k)
        PROVE  \A o \in Jobs : Ordered(o)'
    BY <2>2, <2>3, RunnerStartsOrder, RunnerResumesOrder, RunnerDiesOrder DEF RunnerStep
  <2>4. Launch => \A o \in Jobs : Ordered(o)'
    BY NothingOrdered DEF Launch
  <2>5. \A o \in Jobs : Ordered(o)'
    BY <1>3, <2>1, <2>3, <2>4, UpgradeOrder DEF DeployTasksNext, Beside
  <2>. QED BY <1>1, <1>3, <2>5, FinishedNext, RealmOrderedNext DEF OrderInv
<1>. QED BY <1>2, <1>3

LEMMA OrderInvAlways == ASSUME NoHaste PROVE DeployTasksSpec => []OrderInv
<1>1. DeployTasksInit => OrderInv
  BY TypeInvInit
     DEF DeployTasksInit, OrderInv, TruthInv, AnswerIsTrue, RecordIsTrue, RealmOrdered,
         Finished, Filed, Ordered, OneRunnerEach, Suspended, Answers, NoTask, Fresh, Idle,
         Done, With
<1>2. OrderInv /\ [DeployTasksNext]_vars => OrderInv'
  BY OrderInvNext
<1>. QED BY <1>1, <1>2, PTL DEF DeployTasksSpec

(* While no task is resumed under a suspended runner, no realm is          *)
(* registered, and no owner charged, before each step the realm cannot     *)
(* live without is completed.                                              *)
THEOREM RegistersBootstrapped ==
    ASSUME NoHaste PROVE DeployTasksSpec => []RegisteredIsBootstrapped
<1>1. OrderInv => RegisteredIsBootstrapped
  BY DEF OrderInv, Finished, Filed, Bootstrapped, RegisteredIsBootstrapped
<1>2. DeployTasksSpec => []OrderInv
  BY OrderInvAlways
<1>. QED BY <1>1, <1>2, PTL

(* Nor does the installer make anybody administrator of a realm that has   *)
(* launched, although the launch may come between its look and its call.   *)
THEOREM NoLateAdmin == ASSUME NoHaste PROVE DeployTasksSpec => AdminBeforeLaunch
<1>1. OrderInv /\ [DeployTasksNext]_vars =>
        [realm.launched =>
           \A i \in Idx : Steps[i].kind = "founder_admin" /\ Steps[i] \in realm'.has =>
               Steps[i] \in realm.has]_vars
  BY DEF OrderInv, RealmOrdered, IsBootstrap, BootstrapStepKinds
<1>2. DeployTasksSpec => []OrderInv
  BY OrderInvAlways
<1>. QED BY <1>1, <1>2, PTL DEF DeployTasksSpec, AdminBeforeLaunch

(* While no task is resumed under a suspended runner, a step that was      *)
(* completed is never run again, nor said to have failed: by no retry,     *)
(* resume, upgrade or late answer.                                         *)
THEOREM CompletedStepsStay == ASSUME NoHaste PROVE DeployTasksSpec => CompletedStepStays
<1>1. OrderInv /\ DeployTasksNext => StepsStay
  BY StepsStayNext
<1>2. OrderInv /\ [DeployTasksNext]_vars =>
        [\A j \in Jobs :
           With(task[j].step, "completed") \subseteq With(task'[j].step, "completed")]_vars
  BY <1>1 DEF StepsStay, Done
<1>3. DeployTasksSpec => []OrderInv
  BY OrderInvAlways
<1>. QED BY <1>2, <1>3, PTL DEF DeployTasksSpec, CompletedStepStays
----------------------------------------------------------------------------
(* A task that is queued or under way has a runner.  A job has a task only *)
(* where there may be runners: so the upgrade, which arms one for the head *)
(* of the tasks, can.                                                      *)

RunInv ==
    /\ TaskHasRunner
    /\ \A j \in Jobs : task[j].status # "none" => Slots # {}

(* One runner and its task move; unless the runner goes, it has a task.    *)
LEMMA RunnerMoves ==
    ASSUME TypeInv, RunInv, NEW j \in Jobs, NEW k \in Slots, NEW r, NEW t,
           runner' = [runner EXCEPT ![j][k] = r], task' = [task EXCEPT ![j] = t],
           r.phase = "idle" => t.status \notin {"queued", "running"}
    PROVE  RunInv'
<1>1. /\ runner'[j][k] = r /\ task'[j] = t
      /\ \A o \in Jobs \ {j} : runner'[o] = runner[o] /\ task'[o] = task[o]
  BY DEF TypeInv, DeployTasksTypeOK
<1>2. ASSUME NEW o \in Jobs, task'[o].status \in {"queued", "running"}
      PROVE  \E l \in Slots : runner'[o][l].phase # "idle"
  BY <1>1, <1>2 DEF RunInv, TaskHasRunner, InFlight
<1>3. \A o \in Jobs : task'[o].status # "none" => Slots # {}
  BY <1>1 DEF RunInv
<1>. QED BY <1>2, <1>3 DEF RunInv, TaskHasRunner, InFlight

LEMMA NothingRuns ==
    ASSUME RunInv, UNCHANGED <<task, runner>> PROVE RunInv'
BY DEF RunInv, TaskHasRunner, InFlight

LEMMA TaskUnchanged ==
    ASSUME TypeInv, NEW j \in Jobs, UNCHANGED task PROVE task' = [task EXCEPT ![j] = task[j]]
BY DEF TypeInv, DeployTasksTypeOK

LEMMA ArmRuns ==
    ASSUME TypeInv, RunInv, NEW j \in Jobs, NEW t, task' = [task EXCEPT ![j] = t], Arm(j)
    PROVE  RunInv'
<1>1. PICK k \in Slots : runner' = [runner EXCEPT ![j][k] = Armed]
  BY DEF Arm
<1>2. Armed.phase # "idle"
  BY DEF Armed
<1>. QED BY <1>1, <1>2, RunnerMoves

LEMMA BuildRuns == ASSUME TypeInv, RunInv, NEW j \in Jobs, Build(j) PROVE RunInv'
<1>1. \/ UNCHANGED <<task, runner>>
      \/ Arm(j) /\ \E t : task' = [task EXCEPT ![j] = t]
  BY DEF Build
<1>. QED BY <1>1, NothingRuns, ArmRuns

LEMMA ResumeRuns == ASSUME TypeInv, RunInv, NEW j \in Jobs, Resume(j) PROVE RunInv'
<1>1. Arm(j) /\ \E t : task' = [task EXCEPT ![j] = t]
  BY DEF Resume
<1>. QED BY <1>1, ArmRuns

LEMMA ProceedsRuns ==
    ASSUME TypeInv, RunInv, NEW j \in Jobs, NEW k \in Slots, NEW status, NEW s,
           Proceeds(j, k, status, s)
    PROVE  RunInv'
<1>1. CASE With(s, "pending") = {}
  <2>. DEFINE t == [status |-> Verdict(s), step |-> s]
  <2>1. /\ task' = [task EXCEPT ![j] = t]
        /\ runner' = [runner EXCEPT ![j][k] = Idle]
    BY <1>1 DEF Proceeds
  <2>2. t.status \notin {"queued", "running"}
    BY VerdictType DEF TerminalTask
  <2>. HIDE DEF t
  <2>. QED BY <2>1, <2>2, RunnerMoves
<1>2. CASE With(s, "pending") # {}
  <2>1. PICK next \in With(s, "pending") :
          /\ task' = [task EXCEPT ![j] = [status |-> status,
                                          step |-> [s EXCEPT ![next] = "running"]]]
          /\ runner' = [runner EXCEPT ![j][k] = [phase |-> FirstCall(next), at |-> next]]
    BY <1>2 DEF Proceeds
  <2>. DEFINE r == [phase |-> FirstCall(next), at |-> next]
              t == [status |-> status, step |-> [s EXCEPT ![next] = "running"]]
  <2>2. r.phase # "idle"
    BY DEF FirstCall
  <2>3. task' = [task EXCEPT ![j] = t] /\ runner' = [runner EXCEPT ![j][k] = r]
    BY <2>1
  <2>. HIDE DEF r, t
  <2>. QED BY <2>2, <2>3, RunnerMoves
<1>. QED BY <1>1, <1>2

LEMMA RunnerStartsRuns ==
    ASSUME TypeInv, RunInv, NEW j \in Jobs, NEW k \in Slots, RunnerStarts(j, k) PROVE RunInv'
<1>1. CASE task[j].status \in TerminalTask
  <2>1. runner' = [runner EXCEPT ![j][k] = Idle] /\ UNCHANGED task
    BY <1>1 DEF RunnerStarts
  <2>2. task[j].status \notin {"queued", "running"}
    BY <1>1 DEF TerminalTask
  <2>. QED BY <2>1, <2>2, TaskUnchanged, RunnerMoves
<1>2. CASE task[j].status \notin TerminalTask
  BY <1>2, ProceedsRuns DEF RunnerStarts
<1>. QED BY <1>1, <1>2

LEMMA AnsweredRuns ==
    ASSUME TypeInv, RunInv, NEW j \in Jobs, NEW k \in Slots, NEW answer \in Suspended,
           Answered(j, k, answer), UNCHANGED task
    PROVE  RunInv'
<1>. DEFINE r == [runner[j][k] EXCEPT !.phase = answer]
<1>1. runner' = [runner EXCEPT ![j][k] = r]
  BY DEF Answered
<1>2. r.phase # "idle"
  BY DEF TypeInv, DeployTasksTypeOK, Suspended, Answers
<1>. HIDE DEF r
<1>. QED BY <1>1, <1>2, TaskUnchanged, RunnerMoves

LEMMA RunnerResumesRuns ==
    ASSUME TypeInv, RunInv, NEW j \in Jobs, NEW k \in Slots, RunnerResumes(j, k) PROVE RunInv'
<1>1. CASE MayRetry(runner[j][k].phase, retried[j][runner[j][k].at])
  <2>1. runner' = [runner EXCEPT ![j][k] = Delayed]
    BY <1>1 DEF RunnerResumes
  <2>2. \E t : task' = [task EXCEPT ![j] = t]
    BY <1>1 DEF RunnerResumes
  <2>3. Delayed.phase # "idle"
    BY DEF Delayed
  <2>. QED BY <2>1, <2>2, <2>3, RunnerMoves
<1>2. CASE ~ MayRetry(runner[j][k].phase, retried[j][runner[j][k].at])
  BY <1>2, ProceedsRuns DEF RunnerResumes
<1>. QED BY <1>1, <1>2

LEMMA RunnerDiesRuns ==
    ASSUME TypeInv, RunInv, NEW j \in Jobs, NEW k \in Slots, RunnerDies(j, k) PROVE RunInv'
<1>. DEFINE t == [task[j] EXCEPT !.status = IF @ \in TerminalTask THEN @ ELSE "failed"]
<1>1. task' = [task EXCEPT ![j] = t] /\ runner' = [runner EXCEPT ![j][k] = Idle]
  BY DEF RunnerDies
<1>2. t.status \notin {"queued", "running"}
  BY DEF TypeInv, DeployTasksTypeOK, TerminalTask
<1>. HIDE DEF t
<1>. QED BY <1>1, <1>2, RunnerMoves

(* The head has a slot for its runner; the others are set waiting.         *)
LEMMA UpgradeRuns == ASSUME TypeInv, RunInv, Upgrade PROVE RunInv'
<1>1. CASE Heads = {}
  <2>1. Driven = {} /\ UNCHANGED task
    BY <1>1 DEF Upgrade, ResumeInFlight, Heads
  <2>. QED BY <2>1 DEF Driven, Unfinished, RunInv, TaskHasRunner
<1>2. CASE Heads # {}
  <2>1. PICK head \in Heads :
          /\ runner' = [j \in Jobs |-> [k \in Slots |->
                           IF j = head /\ k = 1 THEN Armed ELSE Idle]]
          /\ task' = [j \in Jobs |-> AfterUpgrade(j, head)]
    BY <1>2 DEF Upgrade, ResumeInFlight
  <2>2. head \in Jobs /\ task[head].status \in {"queued", "running", "waiting"}
    BY DEF Heads, Driven, Unfinished
  <2>3. 1 \in Slots
    BY <2>2, DeployTasksAssumption DEF RunInv, Slots
  <2>4. runner'[head][1].phase # "idle"
    BY <2>1, <2>2, <2>3 DEF Armed
  <2>5. \A j \in Jobs : task'[j].status \in {"queued", "running"} => j = head
    BY <2>1 DEF AfterUpgrade, Driven, Unfinished
  <2>. QED BY <2>2, <2>3, <2>4, <2>5 DEF RunInv, TaskHasRunner, InFlight
<1>. QED BY <1>1, <1>2

LEMMA RunInvNext == TypeInv /\ RunInv /\ [DeployTasksNext]_vars => RunInv'
<1>. SUFFICES ASSUME TypeInv, RunInv, [DeployTasksNext]_vars PROVE RunInv'
  OBVIOUS
<1>1. ASSUME NEW j \in Jobs, Beside(j) PROVE RunInv'
  BY <1>1, NothingRuns DEF Beside, Register, Reconcile, FailFromOutside, RetryDeployment
<1>2. ASSUME NEW j \in Jobs, NEW k \in Slots, StageIsRead(j, k) \/ RealmRuns(j, k)
      PROVE  RunInv'
  <2>1. UNCHANGED task /\ \E answer \in Suspended : Answered(j, k, answer)
    BY <1>2 DEF StageIsRead, RealmRuns, Suspended, Answers
  <2>. QED BY <2>1, AnsweredRuns
<1>3. Launch \/ UNCHANGED vars => RunInv'
  BY NothingRuns DEF Launch, vars
<1>. QED
  BY <1>1, <1>2, <1>3, BuildRuns, ResumeRuns, RunnerStartsRuns, RunnerResumesRuns,
     RunnerDiesRuns, UpgradeRuns DEF DeployTasksNext, RunnerStep, Beside

(* Resumes between runners that end, wait or die leave no task queued or   *)
(* under way that nothing drives, nor does an upgrade, which sets the      *)
(* tasks waiting that it gives no runner: hasty resumes included.          *)
THEOREM TasksHaveRunners == DeployTasksSpec => []TaskHasRunner
<1>1. DeployTasksInit => TypeInv /\ RunInv
  BY TypeInvInit DEF DeployTasksInit, RunInv, TaskHasRunner, NoTask
<1>2. TypeInv /\ [DeployTasksNext]_vars => TypeInv'
  BY TypeInvNext
<1>3. TypeInv /\ RunInv /\ [DeployTasksNext]_vars => (TypeInv /\ RunInv)'
  BY <1>2, RunInvNext
<1>4. RunInv => TaskHasRunner
  BY DEF RunInv
<1>. QED BY <1>1, <1>3, <1>4, PTL DEF DeployTasksSpec
=============================================================================
