------------------------- MODULE Deployment_proofs -------------------------
(***************************************************************************)
(* The registry and the installer together keep the promises that each     *)
(* makes alone: no order of calls, jobs, settlements, lost messages and    *)
(* upgrades makes the ledger or a job take a step that is not its own.     *)
(***************************************************************************)
EXTENDS Deployment, Credits_proofs, InstallerJobs_proofs

(* A call that was made has its caller, and one that reached the installer *)
(* has its job.                                                            *)
CallsTyped ==
    /\ canTestMode \in BOOLEAN
    /\ call \in [Calls -> CallRecord]
    /\ \A c \in Calls :
         /\ call[c].phase # "idle" => call[c].user \in Users
         /\ call[c].phase \notin {"idle", "enqueueing"} => call[c].job \in Jobs

(* What a step does to the calls: it leaves them alone, or it moves one of *)
(* them on without changing its caller.                                    *)
Moves(c, p) ==
    call' = [call EXCEPT ![c].phase = p]

LEMMA MovesTyped ==
    ASSUME CallsTyped, UNCHANGED canTestMode, NEW c \in Calls, NEW p \in CallPhases \ {"idle"}, Moves(c, p),
           call[c].phase \notin {"idle", "enqueueing"}
    PROVE  CallsTyped'
BY DEF CallsTyped, Moves, CallRecord

LEMMA CallsTypedInit == DeploymentInit => CallsTyped
BY DeploymentAssumption DEF DeploymentInit, CallsTyped, CallRecord, CallPhases

LEMMA CallsTypedNext == CallsTyped /\ [DeploymentNext]_vars => CallsTyped'
<1> SUFFICES ASSUME CallsTyped, [DeploymentNext]_vars PROVE CallsTyped'
  OBVIOUS
<1>1. CASE UNCHANGED <<call, canTestMode>>
  BY <1>1 DEF CallsTyped
<1>2. ASSUME NEW c \in Calls, NEW u \in Users, RequestDeployment(c, u)
      PROVE  CallsTyped'
  <2> DEFINE r == [call[c] EXCEPT !.phase = "enqueueing", !.user = u, !.skip = canTestMode]
  <2>1. call' = [call EXCEPT ![c] = r]
    BY <1>2 DEF RequestDeployment, CallsTyped
  <2>3. UNCHANGED canTestMode
    BY <1>2 DEF RequestDeployment
  <2>2. r \in CallRecord /\ r.phase = "enqueueing" /\ r.user \in Users
    BY <2>1 DEF CallsTyped, CallRecord, CallPhases
  <2> HIDE DEF r
  <2> QED
    BY <2>1, <2>2, <2>3 DEF CallsTyped
<1>3. ASSUME NEW c \in Calls, NEW j \in Jobs, EnqueueArrives(c, j)
      PROVE  CallsTyped'
  <2> DEFINE r == [call[c] EXCEPT !.phase = "preflight", !.job = j]
  <2>1. call' = [call EXCEPT ![c] = r] /\ call[c].phase = "enqueueing"
        /\ UNCHANGED canTestMode
    BY <1>3 DEF EnqueueArrives, CallsTyped
  <2>2. r \in CallRecord /\ r.user \in Users /\ r.job \in Jobs
    BY <2>1 DEF CallsTyped, CallRecord, CallPhases
  <2> HIDE DEF r
  <2> QED
    BY <2>1, <2>2 DEF CallsTyped
<1>4. ASSUME NEW c \in Calls, EnqueueAnswers(c)
      PROVE  CallsTyped'
  BY <1>4, MovesTyped DEF EnqueueAnswers, Moves, CallPhases
<1>5. ASSUME NEW c \in Calls, CallResumes(c)
      PROVE  CallsTyped'
  BY <1>5, MovesTyped DEF CallResumes, Moves, CallPhases
<1>6. ASSUME NEW c \in Calls, CancelArrives(c)
      PROVE  CallsTyped'
  BY <1>6, MovesTyped DEF CancelArrives, Moves, CallPhases
<1>7. CASE RegistryUpgrade
  BY <1>7 DEF RegistryUpgrade, CallsTyped, CallRecord
<1>8. CASE \/ \E j \in Jobs, o \in Outcomes :
                \/ SendSettlement(j, o) \/ RegistrySettles(j, o)
                \/ SettlementRejected(j, o) \/ SettlementAnswered(j, o)
           \/ Billing \/ InstallerWorks \/ InstallerUpgrade
  <2>1. UNCHANGED <<call, canTestMode>>
    BY <1>8 DEF SendSettlement, RegistrySettles, SettlementRejected, SettlementAnswered,
       Billing, InstallerWorks, InsideInstaller, InstallerUpgrade
  <2> QED
    BY <1>1, <2>1
<1>9. ASSUME NEW m \in TestModes, Configure(m)
      PROVE  CallsTyped'
  BY <1>9, DeploymentAssumption DEF Configure, CallsTyped
<1> QED
  BY <1>1, <1>2, <1>3, <1>4, <1>5, <1>6, <1>7, <1>8, <1>9 DEF DeploymentNext, vars

----------------------------------------------------------------------------
(* Every step of the whole is a step of the ledger or leaves it alone.     *)
LEMMA StepIsLedgerStep == CallsTyped /\ [DeploymentNext]_vars => [LedgerNext]_ledger
<1> SUFFICES ASSUME CallsTyped, [DeploymentNext]_vars, ~ UNCHANGED ledger
             PROVE  LedgerNext
  OBVIOUS
<1>1. ASSUME NEW c \in Calls, CallResumes(c)
      PROVE  LedgerNext
  <2>1. CreateDeploymentHold(call[c].user, call[c].job)
        /\ call[c].phase = "created"
    BY <1>1 DEF CallResumes
  <2>2. call[c].user \in Users /\ call[c].job \in Jobs
    BY <2>1 DEF CallsTyped
  <2> QED
    BY <2>1, <2>2 DEF LedgerNext
<1>2. ASSUME NEW j \in Jobs, NEW o \in Outcomes, RegistrySettles(j, o)
      PROVE  LedgerNext
  BY <1>2 DEF RegistrySettles, LedgerNext
<1>3. CASE Billing
  BY <1>3 DEF Billing, LedgerNext
<1>4. CASE \/ \E c \in Calls, u \in Users : RequestDeployment(c, u)
           \/ \E c \in Calls, j \in Jobs : EnqueueArrives(c, j)
           \/ \E c \in Calls : EnqueueAnswers(c) \/ CancelArrives(c)
           \/ \E j \in Jobs, o \in Outcomes :
                SendSettlement(j, o) \/ SettlementRejected(j, o) \/ SettlementAnswered(j, o)
           \/ \E m \in TestModes : Configure(m)
           \/ RegistryUpgrade \/ InstallerWorks \/ InstallerUpgrade \/ UNCHANGED vars
  BY <1>4 DEF RequestDeployment, EnqueueArrives, EnqueueAnswers, CancelArrives, SendSettlement,
     SettlementRejected, SettlementAnswered, Configure, RegistryUpgrade, InstallerWorks,
     InsideInstaller, InstallerUpgrade, vars
<1> QED
  BY <1>1, <1>2, <1>3, <1>4 DEF DeploymentNext

(* The deployment service implements the ledger.                           *)
THEOREM DeploymentImplementsLedger == DeploymentSpec => LedgerSpec
<1>1. DeploymentInit => LedgerInit
  BY DEF DeploymentInit
<1> QED
  BY <1>1, CallsTypedInit, CallsTypedNext, StepIsLedgerStep, PTL
  DEF DeploymentSpec, LedgerSpec

(* No credit is created or destroyed by the whole, whatever is lost,       *)
(* retried or upgraded.                                                    *)
THEOREM DeploymentConservesCredits == DeploymentSpec => []Conservation /\ []Solvency
BY DeploymentImplementsLedger, LedgerConservation, LedgerSolvency, PTL

----------------------------------------------------------------------------
(* The installer's jobs take only the installer's steps, given that the    *)
(* registry is among the callers of cancel_deployment.                     *)
LEMMA StepIsInstallerStep ==
    ASSUME "cancel" \in Interventions
    PROVE  CallsTyped /\ [DeploymentNext]_vars => [Next]_job
<1> SUFFICES ASSUME CallsTyped, [DeploymentNext]_vars, ~ UNCHANGED job
             PROVE  Next
  OBVIOUS
<1>1. ASSUME NEW c \in Calls, EnqueueAnswers(c)
      PROVE  Next
  BY <1>1 DEF EnqueueAnswers, CallsTyped, Next
<1>2. ASSUME NEW c \in Calls, CancelArrives(c)
      PROVE  Next
  BY <1>2 DEF CancelArrives, CallsTyped, Next, JobStep, Intervention
<1>3. ASSUME NEW j \in Jobs, NEW o \in Outcomes,
             SendSettlement(j, o) \/ SettlementAnswered(j, o)
      PROVE  Next
  BY <1>3 DEF SendSettlement, SettlementAnswered, Next
<1>4. CASE InstallerWorks \/ InstallerUpgrade
  BY <1>4 DEF InstallerWorks, InstallerUpgrade, Next
<1>5. CASE \/ \E c \in Calls, u \in Users : RequestDeployment(c, u)
           \/ \E c \in Calls, j \in Jobs : EnqueueArrives(c, j)
           \/ \E c \in Calls : CallResumes(c)
           \/ \E j \in Jobs, o \in Outcomes :
                RegistrySettles(j, o) \/ SettlementRejected(j, o)
           \/ \E m \in TestModes : Configure(m)
           \/ RegistryUpgrade \/ Billing \/ UNCHANGED vars
  BY <1>5 DEF RequestDeployment, EnqueueArrives, CallResumes, RegistrySettles,
     SettlementRejected, Configure, RegistryUpgrade, Billing, vars
<1> QED
  BY <1>1, <1>2, <1>3, <1>4, <1>5 DEF DeploymentNext

(* The deployment service implements the installer's job queue.            *)
THEOREM DeploymentImplementsInstaller ==
    ASSUME "cancel" \in Interventions
    PROVE  DeploymentSpec => Spec
<1>1. DeploymentInit => Init
  BY DEF DeploymentInit
<1>2. CallsTyped /\ [DeploymentNext]_vars => [Next]_job
  BY StepIsInstallerStep
<1> QED
  BY <1>1, <1>2, CallsTypedInit, CallsTypedNext, PTL DEF DeploymentSpec, Spec

(* So what the installer promises is kept beside the registry and whatever *)
(* its calls do: each job lives as JobLife allows.                         *)
THEOREM DeploymentKeepsLife ==
    ASSUME "cancel" \in Interventions
    PROVE  DeploymentSpec => ImplementsLife
BY DeploymentImplementsInstaller, InstallerImplementsLife, PTL

----------------------------------------------------------------------------
(* The registry's calls own their jobs.  A call whose job was created for  *)
(* it shares it with no other, so the hold it finds missing when it        *)
(* resumes is its own to create.                                           *)

LEMMA StepKeepsJobs ==
    CallsTyped /\ JobsInv /\ [DeploymentNext]_vars => JobsInv' /\ Known \subseteq Known'
<1> SUFFICES ASSUME CallsTyped, JobsInv, [DeploymentNext]_vars
             PROVE  JobsInv' /\ Known \subseteq Known'
  OBVIOUS
<1>1. CASE UNCHANGED job
  BY <1>1 DEF JobsInv, Known
<1>2. ASSUME NEW c \in Calls, EnqueueAnswers(c)
      PROVE  JobsInv' /\ Known \subseteq Known'
  <2>1. call[c].job \in Jobs /\ (Enqueue(call[c].job) \/ UNCHANGED job)
    BY <1>2 DEF EnqueueAnswers, CallsTyped
  <2> QED
    BY <1>1, <2>1, EnqueueInv, EnqueueKnown
<1>3. ASSUME NEW c \in Calls, CancelArrives(c)
      PROVE  JobsInv' /\ Known \subseteq Known'
  <2>1. call[c].job \in Jobs /\ (CancelDeployment(call[c].job) \/ UNCHANGED job)
    BY <1>3 DEF CancelArrives, CallsTyped
  <2> QED
    BY <1>1, <2>1, CancelInv, CancelKnown
<1>4. ASSUME NEW j \in Jobs, NEW o \in Outcomes,
             SendSettlement(j, o) \/ SettlementAnswered(j, o)
      PROVE  JobsInv' /\ Known \subseteq Known'
  BY <1>4, SettlementInv, SettlementKnown DEF SendSettlement, SettlementAnswered
<1>5. CASE InstallerWorks
  BY <1>5, JobStepInv, JobStepKnown, HeartbeatInv, HeartbeatKnown DEF InstallerWorks
<1>6. CASE InstallerUpgrade
  BY <1>6, UpgradeInv, UpgradeKnown DEF InstallerUpgrade
<1>7. CASE \/ \E c \in Calls, u \in Users : RequestDeployment(c, u)
           \/ \E c \in Calls, j \in Jobs : EnqueueArrives(c, j)
           \/ \E c \in Calls : CallResumes(c)
           \/ \E j \in Jobs, o \in Outcomes :
                RegistrySettles(j, o) \/ SettlementRejected(j, o)
           \/ \E m \in TestModes : Configure(m)
           \/ RegistryUpgrade \/ Billing \/ UNCHANGED vars
  BY <1>1, <1>7 DEF RequestDeployment, EnqueueArrives, CallResumes, RegistrySettles,
     SettlementRejected, Configure, RegistryUpgrade, Billing, vars
<1> QED
  BY <1>2, <1>3, <1>4, <1>5, <1>6, <1>7 DEF DeploymentNext

Placed(c) == call[c].phase \in {"created", "cancelling", "accepted"}

CallsOwnJobs ==
    /\ \A c \in Calls : Placed(c) => call[c].job \in Known
    /\ \A c \in Calls : \A d \in Calls \ {c} :
         Placed(c) /\ Placed(d) => call[c].job # call[d].job

HoldsAreOwned ==
    /\ \A j \in Jobs : holdStatus[j] # "none" =>
         \E c \in Calls : call[c].phase = "accepted" /\ call[c].job = j
    /\ \A c \in Calls : call[c].phase = "accepted" /\ ~ call[c].skip =>
         holdStatus[call[c].job] # "none" /\ holder[call[c].job] = call[c].user

DeploymentInv == CallsTyped /\ JobsInv /\ LedgerInv /\ CallsOwnJobs /\ HoldsAreOwned

LEMMA DeploymentInitInv == DeploymentInit => DeploymentInv
<1> SUFFICES ASSUME DeploymentInit PROVE DeploymentInv
  OBVIOUS
<1>1. CallsTyped /\ JobsInv /\ LedgerInv
  BY CallsTypedInit, InitInv, LedgerInitInv DEF DeploymentInit
<1>2. CallsOwnJobs /\ HoldsAreOwned
  BY DEF DeploymentInit, LedgerInit, CallsOwnJobs, HoldsAreOwned, Placed
<1> QED
  BY <1>1, <1>2 DEF DeploymentInv

(* The calls whose job was created, and what they say, do not change in a  *)
(* step, or one of them is given up.                                       *)
LEMMA OwnershipKept ==
    ASSUME DeploymentInv, Known \subseteq Known',
           \A c \in Calls : Placed(c)' => Placed(c) /\ call'[c].job = call[c].job
    PROVE  CallsOwnJobs'
BY DEF DeploymentInv, CallsOwnJobs, Placed

LEMMA HoldsKept ==
    ASSUME DeploymentInv,
           \A j \in Jobs : /\ holdStatus[j] = "none" <=> holdStatus'[j] = "none"
                           /\ holder'[j] = holder[j],
           \A c \in Calls : /\ call'[c].job = call[c].job \/ call[c].phase \in {"idle", "enqueueing"}
                            /\ call[c].phase = "accepted" => call'[c] = call[c]
                            /\ call'[c].phase = "accepted" => call'[c] = call[c] \/ call'[c].skip
    PROVE  HoldsAreOwned'
<1>1. \A c \in Calls : call[c].phase = "accepted" => call[c].job \in Jobs
  BY DEF DeploymentInv, CallsTyped
<1> QED
  BY <1>1 DEF DeploymentInv, HoldsAreOwned

LEMMA EnqueueAnswersOwned ==
    ASSUME DeploymentInv, NEW c \in Calls, EnqueueAnswers(c), Known \subseteq Known'
    PROVE  CallsOwnJobs' /\ HoldsAreOwned'
<1>1. /\ call[c].phase = "preflight" /\ call[c].job \in Jobs
      /\ UNCHANGED <<holdStatus, holder>>
      /\ CallsTyped /\ JobsInv
  BY DEF EnqueueAnswers, DeploymentInv, CallsTyped, ledger
<1>2. HoldsAreOwned'
  <2>1. \A d \in Calls : /\ call'[d].job = call[d].job
                         /\ call[d].phase = "accepted" => call'[d] = call[d]
                         /\ call'[d].phase = "accepted" => call'[d] = call[d]
    BY <1>1 DEF EnqueueAnswers, CallsTyped, CallRecord
  <2> QED
    BY <1>1, <2>1, HoldsKept
<1>3. CASE Enqueue(call[c].job) /\ call' = [call EXCEPT ![c].phase = "created"]
  <2>1. Known' = Known \union {call[c].job} /\ call[c].job \notin Known
    BY <1>1, <1>3, EnqueueKnown
  <2>2. \A d \in Calls : call'[d].job = call[d].job /\ (d # c => call'[d] = call[d])
    BY <1>1, <1>3 DEF CallsTyped, CallRecord
  <2>3. \A d \in Calls : Placed(d)' => d = c \/ Placed(d)
    BY <2>2 DEF Placed
  <2> QED
    BY <1>2, <2>1, <2>2, <2>3 DEF DeploymentInv, CallsOwnJobs
<1>4. CASE call' = [call EXCEPT ![c].phase = "rejected"]
  <2>1. \A d \in Calls : Placed(d)' => Placed(d) /\ call'[d].job = call[d].job
    BY <1>1, <1>4 DEF CallsTyped, CallRecord, Placed
  <2> QED
    BY <1>2, <2>1, OwnershipKept
<1> QED
  BY <1>3, <1>4 DEF EnqueueAnswers

(* The hold of a resuming call is still missing: whoever created it would  *)
(* be an accepted call with the same job.                                  *)
LEMMA CallResumesOwned ==
    ASSUME DeploymentInv, NEW c \in Calls, CallResumes(c), Known \subseteq Known'
    PROVE  CallsOwnJobs' /\ HoldsAreOwned'
<1> DEFINE j == call[c].job
<1>1. CallsTyped /\ call[c].phase \in {"rejected", "created"} /\ j \in Jobs
      /\ call[c].user \in Users
  BY DEF CallResumes, DeploymentInv, CallsTyped
<1>2. PICK p \in {"refused", "accepted", "cancelling"} :
        /\ call' = [call EXCEPT ![c].phase = p]
        /\ call[c].phase = "rejected" => p = "refused"
        /\ IF p = "accepted" /\ ~ call[c].skip /\ holdStatus[j] = "none"
           THEN CreateDeploymentHold(call[c].user, j)
           ELSE UNCHANGED ledger
  BY DEF CallResumes
<1>3. /\ call'[c].phase = p /\ call'[c].user = call[c].user /\ call'[c].skip = call[c].skip
      /\ \A d \in Calls : call'[d].job = call[d].job /\ (d # c => call'[d] = call[d])
  BY <1>1, <1>2 DEF CallsTyped, CallRecord
<1>4. CallsOwnJobs'
  <2>1. \A d \in Calls : Placed(d)' => Placed(d)
    BY <1>1, <1>2, <1>3 DEF Placed
  <2> QED
    BY <1>3, <2>1, OwnershipKept
<1>5. HoldsAreOwned'
  <2>1. CASE UNCHANGED ledger /\ (p # "accepted" \/ call[c].skip)
    <3>1. \A d \in Calls : /\ call[d].phase = "accepted" => call'[d] = call[d]
                           /\ call'[d].phase = "accepted" => call'[d] = call[d] \/ call'[d].skip
      BY <1>1, <1>3, <2>1
    <3> QED
      BY <1>3, <2>1, <3>1, HoldsKept DEF ledger
  <2>2. CASE ~ call[c].skip /\ p = "accepted"
    <3>1. call[c].phase = "created"
      BY <1>1, <1>2, <2>2
    <3>2. holdStatus[j] = "none"
      <4> SUFFICES ASSUME holdStatus[j] # "none" PROVE FALSE
        OBVIOUS
      <4>1. PICK d \in Calls : call[d].phase = "accepted" /\ call[d].job = j
        BY <1>1 DEF DeploymentInv, HoldsAreOwned
      <4> QED
        BY <3>1, <4>1 DEF DeploymentInv, CallsOwnJobs, Placed
    <3>3. CreateDeploymentHold(call[c].user, j)
      BY <1>2, <2>2, <3>2
    <3>4. /\ holdStatus' = [holdStatus EXCEPT ![j] = "held"]
          /\ holder' = [holder EXCEPT ![j] = call[c].user]
          /\ holdStatus \in [Jobs -> HoldStatuses] /\ holder \in [Jobs -> Users \union {NoUser}]
      BY <3>3 DEF CreateDeploymentHold, DeploymentInv, LedgerInv, LedgerTypeOK
    <3>5. \A d \in Calls : d # c /\ call[d].phase = "accepted" => call[d].job # j /\ call[d].job \in Jobs
      BY <3>1 DEF DeploymentInv, CallsOwnJobs, CallsTyped, Placed
    <3> QED
      BY <1>1, <1>3, <2>2, <3>4, <3>5 DEF DeploymentInv, HoldsAreOwned
  <2> QED
    BY <1>2, <2>1, <2>2
<1> QED
  BY <1>4, <1>5

LEMMA SettlesOwned ==
    ASSUME DeploymentInv, NEW j \in Jobs, NEW o \in Outcomes, RegistrySettles(j, o)
    PROVE  HoldsAreOwned'
<1>1. holdStatus \in [Jobs -> HoldStatuses]
  BY DEF DeploymentInv, LedgerInv, LedgerTypeOK
<1>2. /\ \A k \in Jobs : holdStatus[k] = "none" <=> holdStatus'[k] = "none"
      /\ holder' = holder
  BY <1>1 DEF RegistrySettles, CaptureDeploymentHold, ReleaseDeploymentHold, ledger
<1>3. UNCHANGED call
  BY DEF RegistrySettles
<1> QED
  BY <1>2, <1>3, HoldsKept

LEMMA DeploymentNextInv == DeploymentInv /\ [DeploymentNext]_vars => DeploymentInv'
<1> SUFFICES ASSUME DeploymentInv, [DeploymentNext]_vars PROVE DeploymentInv'
  OBVIOUS
<1>1. CallsTyped' /\ JobsInv' /\ Known \subseteq Known'
  BY CallsTypedNext, StepKeepsJobs DEF DeploymentInv
<1>2. LedgerInv'
  BY StepIsLedgerStep, LedgerNextInv DEF DeploymentInv
<1>3. ASSUME UNCHANGED holdStatus, UNCHANGED holder,
             \A c \in Calls :
               \/ call'[c] = call[c]
               \/ /\ call[c].phase \in {"idle", "enqueueing"}
                  /\ call'[c].phase \in {"enqueueing", "preflight"}
               \/ /\ call[c].phase = "cancelling"
                  /\ call'[c].phase = "refused"
                  /\ call'[c].job = call[c].job
               \/ /\ call[c].phase # "accepted"
                  /\ call'[c].phase = call[c].phase
                  /\ call'[c].job = call[c].job
      PROVE  CallsOwnJobs' /\ HoldsAreOwned'
  <2>1. \A c \in Calls : Placed(c)' => Placed(c) /\ call'[c].job = call[c].job
    BY <1>3 DEF Placed
  <2>2. \A c \in Calls : /\ call'[c].job = call[c].job \/ call[c].phase \in {"idle", "enqueueing"}
                         /\ call[c].phase = "accepted" => call'[c] = call[c]
                         /\ call'[c].phase = "accepted" => call'[c] = call[c]
    BY <1>3
  <2>3. \A j \in Jobs : /\ holdStatus[j] = "none" <=> holdStatus'[j] = "none"
                        /\ holder'[j] = holder[j]
    BY <1>3
  <2>4. CallsOwnJobs'
    BY <1>1, <2>1, OwnershipKept
  <2> QED
    BY <2>2, <2>3, <2>4, HoldsKept
<1>4. ASSUME UNCHANGED <<call, holdStatus, holder>>
      PROVE  CallsOwnJobs' /\ HoldsAreOwned'
  <2>1. UNCHANGED holdStatus /\ UNCHANGED holder /\ \A c \in Calls : call'[c] = call[c]
    BY <1>4
  <2> QED
    BY <1>3, <2>1
<1>5. ASSUME NEW c \in Calls, NEW u \in Users, RequestDeployment(c, u)
      PROVE  CallsOwnJobs' /\ HoldsAreOwned'
  <2>1. \A d \in Calls :
          \/ call'[d] = call[d]
          \/ call[d].phase = "idle" /\ call'[d].phase = "enqueueing"
    <3>1. call \in [Calls -> CallRecord] /\ call[c].phase = "idle"
      BY <1>5 DEF RequestDeployment, DeploymentInv, CallsTyped
    <3> DEFINE r == [call[c] EXCEPT !.phase = "enqueueing", !.user = u, !.skip = canTestMode]
    <3>2. r.phase = "enqueueing" /\ call' = [call EXCEPT ![c] = r]
      BY <1>5, <3>1 DEF RequestDeployment, CallRecord
    <3> HIDE DEF r
    <3> QED
      BY <3>1, <3>2
  <2>2. UNCHANGED holdStatus /\ UNCHANGED holder
    BY <1>5 DEF RequestDeployment, ledger
  <2> QED
    BY <1>3, <2>1, <2>2
<1>6. ASSUME NEW c \in Calls, NEW j \in Jobs, EnqueueArrives(c, j)
      PROVE  CallsOwnJobs' /\ HoldsAreOwned'
  <2>1. \A d \in Calls :
          \/ call'[d] = call[d]
          \/ call[d].phase = "enqueueing" /\ call'[d].phase = "preflight"
    <3>1. call \in [Calls -> CallRecord] /\ call[c].phase = "enqueueing"
      BY <1>6 DEF EnqueueArrives, DeploymentInv, CallsTyped
    <3> DEFINE r == [call[c] EXCEPT !.phase = "preflight", !.job = j]
    <3>2. r.phase = "preflight" /\ call' = [call EXCEPT ![c] = r]
      BY <1>6, <3>1 DEF EnqueueArrives, CallRecord
    <3> HIDE DEF r
    <3> QED
      BY <3>1, <3>2
  <2>2. UNCHANGED holdStatus /\ UNCHANGED holder
    BY <1>6 DEF EnqueueArrives, ledger
  <2> QED
    BY <1>3, <2>1, <2>2
<1>7. ASSUME NEW c \in Calls, CancelArrives(c)
      PROVE  CallsOwnJobs' /\ HoldsAreOwned'
  <2>1. \A d \in Calls :
          \/ call'[d] = call[d]
          \/ /\ call[d].phase = "cancelling"
             /\ call'[d].phase = "refused"
             /\ call'[d].job = call[d].job
    <3>1. call \in [Calls -> CallRecord] /\ call[c].phase = "cancelling"
      BY <1>7 DEF CancelArrives, DeploymentInv, CallsTyped
    <3> DEFINE r == [call[c] EXCEPT !.phase = "refused"]
    <3>2. r.phase = "refused" /\ r.job = call[c].job /\ call' = [call EXCEPT ![c] = r]
      BY <1>7, <3>1 DEF CancelArrives, CallRecord
    <3> HIDE DEF r
    <3> QED
      BY <3>1, <3>2
  <2>2. UNCHANGED holdStatus /\ UNCHANGED holder
    BY <1>7 DEF CancelArrives, ledger
  <2> QED
    BY <1>3, <2>1, <2>2
<1>8. ASSUME RegistryUpgrade
      PROVE  CallsOwnJobs' /\ HoldsAreOwned'
  <2>1. \A d \in Calls :
          \/ call'[d] = call[d]
          \/ /\ call[d].phase # "accepted"
             /\ call'[d].phase = call[d].phase
             /\ call'[d].job = call[d].job
    BY <1>8 DEF RegistryUpgrade, DeploymentInv, CallsTyped, CallRecord
  <2>2. UNCHANGED holdStatus /\ UNCHANGED holder
    BY <1>8 DEF RegistryUpgrade, ledger
  <2> QED
    BY <1>3, <2>1, <2>2
<1>9. ASSUME NEW j \in Jobs, NEW o \in Outcomes, RegistrySettles(j, o)
      PROVE  CallsOwnJobs' /\ HoldsAreOwned'
  <2>1. UNCHANGED call
    BY <1>9 DEF RegistrySettles
  <2> QED
    BY <1>1, <1>9, <2>1, OwnershipKept, SettlesOwned DEF Placed
<1>10. ASSUME \/ \E j \in Jobs, o \in Outcomes :
                   SendSettlement(j, o) \/ SettlementRejected(j, o) \/ SettlementAnswered(j, o)
              \/ \E m \in TestModes : Configure(m)
              \/ Billing \/ InstallerWorks \/ InstallerUpgrade \/ UNCHANGED vars
       PROVE  CallsOwnJobs' /\ HoldsAreOwned'
  <2>1. UNCHANGED <<call, holdStatus, holder>>
    BY <1>10 DEF SendSettlement, SettlementRejected, SettlementAnswered, Configure, Billing,
       AddUserCredits, DeductUserCredits, CreditCaller, Deposit, holds, InstallerWorks,
       InsideInstaller, InstallerUpgrade, vars, ledger
  <2> QED
    BY <1>4, <2>1
<1>11. CallsOwnJobs' /\ HoldsAreOwned'
  BY <1>1, <1>5, <1>6, <1>7, <1>8, <1>9, <1>10, EnqueueAnswersOwned, CallResumesOwned
  DEF DeploymentNext
<1> QED
  BY <1>1, <1>2, <1>11 DEF DeploymentInv

(* Whatever else is requested, lost or upgraded at the same time, a call   *)
(* that the registry answered with success has a hold in its caller's name *)
(* and shares its job with no other.                                       *)
THEOREM AcceptedCallsHavePaid == DeploymentSpec => []AcceptedCallHasPaid
<1>1. DeploymentInv => AcceptedCallHasPaid
  BY DEF DeploymentInv, CallsOwnJobs, HoldsAreOwned, Placed, Known, AcceptedCallHasPaid
<1> QED
  BY <1>1, DeploymentInitInv, DeploymentNextInv, PTL DEF DeploymentSpec

----------------------------------------------------------------------------
(***************************************************************************)
(* No user is charged for a deployment that was never completed: whatever  *)
(* fails, is retried, cancelled, lost or upgraded, a success that reaches  *)
(* the registry was armed by a job that was completed.                     *)
(***************************************************************************)

(* What one record becomes when the installer works on it: it goes on, and *)
(* has nothing new to report, or it ends, and arms the report of this end. *)
GoesOn(q, r) ==
    /\ r.settle = q.settle /\ r.calling = q.calling /\ r.notified = q.notified
    /\ r.status = q.status \/ r.status \notin Terminal

EndsAnew(q, r) ==
    /\ r.calling = q.calling /\ r.notified = q.notified
    /\ r.status \in Terminal
    /\ r.settle = [q.settle EXCEPT ![Due(r.status)] = @ + 1]

Accounts(q, r) == GoesOn(q, r) \/ EndsAnew(q, r)

StepAccounts == \A j \in Jobs : Accounts(job[j], job'[j])

LEMMA AccountsByRecord ==
    ASSUME JobsInv, NEW j \in Jobs, NEW r, Becomes(j, r), Accounts(job[j], r)
    PROVE  StepAccounts
BY DEF StepAccounts, Accounts, GoesOn, Becomes, JobsInv

LEMMA AccountsChain ==
    ASSUME NEW q, NEW p, NEW r, GoesOn(q, p), Accounts(p, r)
    PROVE  Accounts(q, r)
BY DEF GoesOn, EndsAnew, Accounts

----------------------------------------------------------------------------
(* What the handlers have in common, as functions from record to record.   *)
LEMMA HandlersAccount ==
    ASSUME NEW r \in JobRecord
    PROVE  /\ Accounts(r, r)
           /\ Accounts(r, FailJob(r))
           /\ Accounts(r, MarkFailed(r))
           /\ Accounts(r, VerificationFails(r))
           /\ Accounts(r, Cancelled(r))
           /\ Accounts(r, ArmSettlement([r EXCEPT !.status = "completed"], "succeeded"))
<1>1. Accounts(r, r)
  BY DEF Accounts, GoesOn
<1>2. ASSUME NEW s \in Terminal
      PROVE  EndsAnew(r, ArmSettlement([r EXCEPT !.status = s], Due(s)))
  <2> DEFINE t == ArmSettlement([r EXCEPT !.status = s], Due(s))
  <2>1. /\ t.status = s /\ t.calling = r.calling /\ t.notified = r.notified
        /\ t.settle = [r.settle EXCEPT ![Due(s)] = @ + 1]
    BY DEF ArmSettlement, JobRecord
  <2> QED
    BY <1>2, <2>1 DEF EndsAnew
<1>3. Accounts(r, FailJob(r))
  BY <1>2 DEF FailJob, Accounts, Terminal, Due
<1>4. Accounts(r, MarkFailed(r))
  BY <1>1, <1>3 DEF MarkFailed
<1>5. Accounts(r, VerificationFails(r))
  BY <1>2 DEF VerificationFails, Accounts, Terminal, Due
<1>6. Accounts(r, Cancelled(r))
  BY <1>1, <1>2 DEF Cancelled, Accounts, Terminal, Due
<1>7. Accounts(r, ArmSettlement([r EXCEPT !.status = "completed"], "succeeded"))
  BY <1>2 DEF Accounts, Terminal, Due
<1> QED
  BY <1>1, <1>3, <1>4, <1>5, <1>6, <1>7

(* A handler that has more to write than its report.                       *)
LEMMA AccountsAfter ==
    ASSUME NEW r \in JobRecord, NEW p \in JobRecord, GoesOn(r, p)
    PROVE  /\ Accounts(r, p)
           /\ Accounts(r, FailJob(p))
           /\ Accounts(r, MarkFailed(p))
           /\ Accounts(r, VerificationFails(p))
           /\ Accounts(r, ArmSettlement([p EXCEPT !.status = "completed"], "succeeded"))
<1>1. /\ Accounts(p, p) /\ Accounts(p, FailJob(p)) /\ Accounts(p, MarkFailed(p))
      /\ Accounts(p, VerificationFails(p))
      /\ Accounts(p, ArmSettlement([p EXCEPT !.status = "completed"], "succeeded"))
  BY HandlersAccount
<1>2. \A s : Accounts(p, s) => Accounts(r, s)
  BY AccountsChain
<1> QED
  BY <1>1, <1>2

LEMMA ResumedGoesOn ==
    ASSUME NEW r \in JobRecord
    PROVE  /\ \A t : GoesOn(r, Resumed(r, t))
           /\ \A t, p : GoesOn(r, LeavePass(Resumed(r, t), p))
           /\ \A q \in Requeued(r) : GoesOn(r, q) /\ GoesOn(r, LeavePass(q, "reading"))
           /\ \A j : \A q \in NewTask(r, j) : GoesOn(r, q) /\ GoesOn(r, LeavePass(q, "bootstrap"))
<1>1. /\ \A t : GoesOn(r, Resumed(r, t))
      /\ \A t, p : GoesOn(r, LeavePass(Resumed(r, t), p))
  BY DEF Resumed, LeavePass, GoesOn, JobRecord
<1>2. \A q \in Requeued(r) : \E t \in {"queued", "active"} : q = Resumed(r, t)
  BY RequeuedIsResumed
<1>3. \A j : \A q \in NewTask(r, j) : \E t \in {"queued", "active"} : q = Resumed(r, t)
  BY NewTaskIsResumed
<1> QED
  BY <1>1, <1>2, <1>3

(* A pass that ends clears the lock, and reports no more for it.           *)
LEMMA LeavePassAccounts ==
    ASSUME NEW r \in JobRecord, NEW p
    PROVE  /\ GoesOn(r, LeavePass(r, p))
           /\ Accounts(r, LeavePass(FailJob(r), p))
           /\ Accounts(r, MarkFailed(LeavePass(r, p)))
<1>1. GoesOn(r, LeavePass(r, p))
  BY DEF LeavePass, GoesOn, JobRecord
<1> DEFINE t == FailJob(r)
           l == LeavePass(t, p)
<1>2. /\ t.status = "failed" /\ t.calling = r.calling /\ t.notified = r.notified
      /\ t.settle = [r.settle EXCEPT !["failed"] = @ + 1]
  BY DEF FailJob, ArmSettlement, JobRecord
<1>3. /\ l.status = t.status /\ l.calling = t.calling /\ l.notified = t.notified
      /\ l.settle = t.settle
  BY DEF LeavePass, FailJob, ArmSettlement, JobRecord
<1>4. Accounts(r, l)
  <2> HIDE DEF t, l
  <2> QED
    BY <1>2, <1>3 DEF Accounts, EndsAnew, Terminal, Due
<1>5. Accounts(r, MarkFailed(LeavePass(r, p)))
  <2> DEFINE m == LeavePass(r, p)
             f == FailJob(m)
  <2>1. /\ m.status = r.status /\ m.calling = r.calling /\ m.notified = r.notified
        /\ m.settle = r.settle
    BY DEF LeavePass, JobRecord
  <2>2. /\ f.status = "failed" /\ f.calling = m.calling /\ f.notified = m.notified
        /\ f.settle = [m.settle EXCEPT !["failed"] = @ + 1]
    BY DEF LeavePass, FailJob, ArmSettlement, JobRecord
  <2>3. MarkFailed(m) \in {m, f}
    BY DEF MarkFailed
  <2> HIDE DEF m, f
  <2>4. Accounts(r, m) /\ Accounts(r, f)
    BY <2>1, <2>2 DEF Accounts, GoesOn, EndsAnew, Terminal, Due
  <2> QED
    BY <2>3, <2>4 DEF m
<1> QED
  BY <1>1, <1>4, <1>5

LEMMA PassStartedGoesOn ==
    ASSUME NEW r \in JobRecord, NEW s \in PassStarted(r)
    PROVE  GoesOn(r, s)
<1> DEFINE e == [r EXCEPT !.lock = "free", !.status = "extensions"]
<1>1. e \in JobRecord /\ GoesOn(r, e) /\ e.status = "extensions"
  BY DEF GoesOn, JobRecord, Statuses, Terminal
<1>2. \A q \in Requeued(e) : GoesOn(e, q)
  BY <1>1, ResumedGoesOn
<1>3. GoesOn(r, [r EXCEPT !.lock = "fresh", !.pass["declaring"] = @ + 1])
  BY DEF GoesOn, JobRecord
<1>4. \A q \in Requeued(e) : GoesOn(r, q)
  <2> HIDE DEF e
  <2> QED
    BY <1>1, <1>2 DEF GoesOn
<1> QED
  BY <1>3, <1>4 DEF PassStarted

LEMMA KickAccounts == ASSUME JobsInv, NEW j \in Jobs, Kick(j) PROVE StepAccounts
<1> DEFINE r == [job[j] EXCEPT !.kicks = @ - 1]
<1>1. job[j] \in JobRecord /\ job[j].kicks > 0
  BY DEF JobsInv, Kick, KickStarts, KickSkips, KickFails
<1>2. r \in JobRecord /\ GoesOn(job[j], r)
  BY <1>1 DEF JobRecord, GoesOn
<1>3. PICK s : Becomes(j, s) /\ (s \in PassStarted(r) \/ s = r \/ s = MarkFailed(r))
  BY DEF Kick, KickStarts, KickSkips, KickFails
<1>4. Accounts(r, s)
  BY <1>2, <1>3, PassStartedGoesOn, HandlersAccount DEF Accounts
<1> QED
  BY <1>2, <1>3, <1>4, AccountsChain, AccountsByRecord

LEMMA PassAccounts == ASSUME JobsInv, NEW j \in Jobs, PassResumes(j) PROVE StepAccounts
<1>1. job[j] \in JobRecord
  BY DEF JobsInv
<1>2. CASE PassDeclares(j)
  BY <1>1, <1>2, AccountsByRecord DEF PassDeclares, JobRecord, Accounts, GoesOn
<1>3. CASE PassRaises(j)
  BY <1>1, <1>3, LeavePassAccounts, AccountsByRecord DEF PassRaises
<1>4. CASE PassWaits(j)
  BY <1>1, <1>4, AccountsByRecord DEF PassWaits, LeavePass, JobRecord, Accounts, GoesOn, Terminal
<1>5. CASE PassFindsBroken(j)
  BY <1>1, <1>5, LeavePassAccounts, AccountsByRecord DEF PassFindsBroken
<1>6. CASE PassFindsBuilt(j)
  <2> DEFINE e == [job[j] EXCEPT !.status = "extensions"]
             b == [e EXCEPT !.pass["reading"] = @ - 1, !.pass["bootstrap"] = @ + 1]
  <2>1. e \in JobRecord /\ GoesOn(job[j], e)
    BY <1>1 DEF JobRecord, Statuses, GoesOn, Terminal
  <2>2. \/ Becomes(j, b)
        \/ \E q \in Requeued(e) : Becomes(j, LeavePass(q, "reading"))
    BY <1>6 DEF PassFindsBuilt
  <2>3. GoesOn(job[j], b)
    BY <1>1 DEF JobRecord, GoesOn, Terminal
  <2>4. \A q \in Requeued(e) : Accounts(job[j], LeavePass(q, "reading"))
    BY <2>1, ResumedGoesOn, AccountsChain DEF Accounts
  <2> QED
    BY <2>2, <2>3, <2>4, AccountsByRecord DEF Accounts
<1>7. CASE PassBuildsTask(j)
  BY <1>1, <1>7, ResumedGoesOn, LeavePassAccounts, AccountsByRecord DEF PassBuildsTask, Accounts
<1> QED
  BY <1>2, <1>3, <1>4, <1>5, <1>6, <1>7 DEF PassResumes

(* The registration arms a success, with the completion of the job.        *)
LEMMA TaskAccounts ==
    ASSUME JobsInv, NEW j \in Jobs,
           LockGoesStale(j) \/ ConductorBuilds(j) \/ Runner(j) \/ Registration(j)
    PROVE  StepAccounts
<1>1. job[j] \in JobRecord
  BY DEF JobsInv
<1>2. CASE LockGoesStale(j) \/ ConductorBuilds(j)
  BY <1>1, <1>2, AccountsByRecord DEF LockGoesStale, ConductorBuilds, JobRecord, Accounts, GoesOn
<1>3. CASE RunnerStarts(j) \/ RunnerRetries(j) \/ RunnerDies(j) \/ RegistrationStarts(j)
  <2> DEFINE armed == [job[j] EXCEPT !.runner["armed"] = @ - 1]
             started == [armed EXCEPT !.task = "active", !.runner["running"] = @ + 1]
             retried == [job[j] EXCEPT !.runner["running"] = @ - 1, !.runner["armed"] = @ + 1]
             died == [job[j] EXCEPT !.runner["running"] = @ - 1, !.task = "ended"]
             due == [job[j] EXCEPT !.registration["armed"] = @ - 1]
             asking == [due EXCEPT !.registration["running"] = @ + 1]
  <2>1. \A r \in {armed, started, retried, died, due, asking} : GoesOn(job[j], r)
    BY <1>1 DEF JobRecord, GoesOn
  <2>2. \E r \in {armed, started, retried, died, due, asking} : Becomes(j, r)
    BY <1>3 DEF RunnerStarts, RunnerRetries, RunnerDies, RegistrationStarts
  <2> HIDE DEF armed, started, retried, died, due, asking
  <2> QED
    BY <2>1, <2>2, AccountsByRecord DEF Accounts
<1>4. CASE RunnerFinishes(j)
  <2> DEFINE r == [job[j] EXCEPT !.runner["running"] = @ - 1, !.task = "ended"]
  <2>1. r \in JobRecord /\ GoesOn(job[j], r)
    <3>1. [job[j].runner EXCEPT !["running"] = @ - 1] \in Counters(Legs)
      BY <1>1, <1>4 DEF RunnerFinishes, JobRecord, Counters, Legs
    <3>2. \A c \in Counters(Legs) : [job[j] EXCEPT !.runner = c, !.task = "ended"] \in JobRecord
      BY <1>1 DEF JobRecord, TaskStates
    <3> QED
      BY <1>1, <3>1, <3>2 DEF JobRecord, GoesOn
  <2>2. GoesOn(job[j], [r EXCEPT !.status = "registering", !.registration["armed"] = @ + 1])
    BY <1>1 DEF JobRecord, GoesOn, Terminal
  <2>3. \/ Becomes(j, [r EXCEPT !.status = "registering", !.registration["armed"] = @ + 1])
        \/ Becomes(j, FailJob(r))
    BY <1>4 DEF RunnerFinishes
  <2> HIDE DEF r
  <2> QED
    BY <1>1, <2>1, <2>2, <2>3, AccountsAfter, AccountsByRecord DEF Accounts
<1>5. CASE RegistrationEnds(j)
  <2> DEFINE r == [job[j] EXCEPT !.registration["running"] = @ - 1]
  <2>1. r \in JobRecord /\ GoesOn(job[j], r)
    <3>1. [job[j].registration EXCEPT !["running"] = @ - 1] \in Counters(Legs)
      BY <1>1, <1>5 DEF RegistrationEnds, JobRecord, Counters, Legs
    <3>2. \A c \in Counters(Legs) : [job[j] EXCEPT !.registration = c] \in JobRecord
      BY <1>1 DEF JobRecord
    <3> QED
      BY <1>1, <3>1, <3>2 DEF JobRecord, GoesOn
  <2>2. \/ Becomes(j, ArmSettlement([r EXCEPT !.status = "completed"], "succeeded"))
        \/ Becomes(j, MarkFailed(r))
    BY <1>5 DEF RegistrationEnds
  <2> HIDE DEF r
  <2> QED
    BY <1>1, <2>1, <2>2, AccountsAfter, AccountsByRecord
<1> QED
  BY <1>2, <1>3, <1>4, <1>5 DEF Runner, Registration

LEMMA ReportAccounts == ASSUME JobsInv, NEW j \in Jobs, ReportResumes(j) PROVE StepAccounts
<1>1. job[j] \in JobRecord
  BY DEF JobsInv
<1>2. ASSUME NEW p \in ReportPhases, job[j].report[p] > 0
      PROVE  LET r == [job[j] EXCEPT !.report[p] = @ - 1] IN
             /\ r \in JobRecord /\ GoesOn(job[j], r)
             /\ [r EXCEPT !.status = "extensions"] \in JobRecord
             /\ GoesOn(job[j], [r EXCEPT !.status = "extensions"])
             /\ GoesOn(job[j], [[r EXCEPT !.status = "extensions"] EXCEPT !.report["deps"] = @ + 1])
  <2>1. [job[j].report EXCEPT ![p] = @ - 1] \in Counters(ReportPhases)
    BY <1>1, <1>2 DEF JobRecord, Counters
  <2>2. \A c \in Counters(ReportPhases) :
          /\ [job[j] EXCEPT !.report = c] \in JobRecord
          /\ [job[j] EXCEPT !.report = c, !.status = "extensions"] \in JobRecord
    BY <1>1 DEF JobRecord, Statuses
  <2> QED
    BY <1>1, <2>1, <2>2 DEF JobRecord, GoesOn, Terminal
<1>3. CASE CanisterStatusRead(j)
  <2> DEFINE r == [job[j] EXCEPT !.report["ready"] = @ - 1]
  <2>1. r \in JobRecord /\ GoesOn(job[j], r)
    BY <1>2, <1>3 DEF CanisterStatusRead, ReportPhases
  <2>2. Becomes(j, r) \/ Becomes(j, VerificationFails(r))
    BY <1>3 DEF CanisterStatusRead
  <2> HIDE DEF r
  <2> QED
    BY <1>1, <2>1, <2>2, AccountsAfter, AccountsByRecord
<1>4. CASE FrontendStatusRead(j)
  <2> DEFINE r == [job[j] EXCEPT !.report["frontend"] = @ - 1]
             e == [r EXCEPT !.status = "extensions"]
             d == [e EXCEPT !.report["deps"] = @ + 1]
  <2>1. /\ r \in JobRecord /\ GoesOn(job[j], r) /\ e \in JobRecord /\ GoesOn(job[j], e)
        /\ GoesOn(job[j], d)
    BY <1>2, <1>4 DEF FrontendStatusRead, ReportPhases
  <2>2. \A q \in Requeued(e) : Accounts(job[j], q)
    BY <2>1, ResumedGoesOn, AccountsChain DEF Accounts
  <2>3. \/ Becomes(j, VerificationFails(r)) \/ Becomes(j, d)
        \/ \E q \in Requeued(e) : Becomes(j, q)
        \/ Becomes(j, e)
    BY <1>4 DEF FrontendStatusRead
  <2> HIDE DEF r, e, d
  <2> QED
    BY <1>1, <2>1, <2>2, <2>3, AccountsAfter, AccountsByRecord DEF Accounts
<1>5. CASE ReportBuildsTask(j)
  <2> DEFINE r == [job[j] EXCEPT !.report["deps"] = @ - 1]
  <2>1. r \in JobRecord /\ GoesOn(job[j], r)
    BY <1>2, <1>5 DEF ReportBuildsTask, ReportPhases
  <2>2. \A q \in NewTask(r, j) : Accounts(job[j], q)
    BY <2>1, ResumedGoesOn, AccountsChain DEF Accounts
  <2>3. (\E q \in NewTask(r, j) : Becomes(j, q)) \/ Becomes(j, FailJob(r))
    BY <1>5 DEF ReportBuildsTask
  <2> HIDE DEF r
  <2> QED
    BY <1>1, <2>1, <2>2, <2>3, AccountsAfter, AccountsByRecord
<1> QED
  BY <1>3, <1>4, <1>5 DEF ReportResumes

LEMMA InterventionAccounts == ASSUME JobsInv, NEW j \in Jobs, Intervention(j) PROVE StepAccounts
<1>1. job[j] \in JobRecord
  BY DEF JobsInv
<1>2. CASE ProvisionEndpoint(j)
  BY <1>1, <1>2, PassStartedGoesOn, HandlersAccount, AccountsByRecord
  DEF ProvisionEndpoint, Accounts
<1>3. CASE ReportCanisterReady(j) \/ ReportFrontendVerified(j) \/ RetryDeployment(j)
  BY <1>1, <1>3, AccountsByRecord
  DEF ReportCanisterReady, ReportFrontendVerified, RetryDeployment, JobRecord, Accounts, GoesOn,
      Terminal
<1>4. CASE CancelDeployment(j) \/ ReportDeploymentFailure(j) \/ FinalizeDeployment(j)
  BY <1>1, <1>4, HandlersAccount, AccountsByRecord
  DEF CancelDeployment, ReportDeploymentFailure, FinalizeDeployment
<1> QED
  BY <1>2, <1>3, <1>4 DEF Intervention

LEMMA HeartbeatAccounts == ASSUME JobsInv, Heartbeat PROVE StepAccounts
<1>1. PICK old \in SUBSET Jobs :
        job' = [i \in Jobs |-> Reconciled(Rekicked(job[i]), i \in old)]
  BY DEF Heartbeat
<1>2. ASSUME NEW r \in JobRecord, NEW b \in BOOLEAN
      PROVE  Accounts(r, Reconciled(Rekicked(r), b))
  <2>1. Rekicked(r) \in JobRecord /\ GoesOn(r, Rekicked(r))
    BY DEF Rekicked, JobRecord, GoesOn
  <2> QED
    BY <2>1, AccountsAfter DEF Reconciled
<1>3. ASSUME NEW i \in Jobs
      PROVE  Accounts(job[i], job'[i])
  <2>1. (i \in old) \in BOOLEAN /\ job'[i] = Reconciled(Rekicked(job[i]), i \in old)
        /\ job[i] \in JobRecord
    BY <1>1 DEF JobsInv
  <2> QED
    BY <1>2, <2>1
<1> QED
  BY <1>3 DEF StepAccounts

LEMMA InstallerAccounts == ASSUME JobsInv, InstallerWorks PROVE StepAccounts
BY KickAccounts, PassAccounts, TaskAccounts, ReportAccounts, InterventionAccounts,
   HeartbeatAccounts DEF InstallerWorks, JobStep

----------------------------------------------------------------------------
(* The messages between the two canisters.                                 *)

MessagesTyped ==
    /\ wire \in [Jobs -> Counters(Outcomes)]
    /\ reply \in [Jobs -> Counters(Outcomes)]
    /\ everCompleted \subseteq Jobs
    /\ everFailed \subseteq Jobs

(* Wherever the news of a success has got to, the job was completed.       *)
SuccessIsEarned ==
    \A j \in Jobs :
        job[j].settle["succeeded"] > 0 \/ wire[j]["succeeded"] > 0 \/ holdStatus[j] = "captured"
            => j \in everCompleted

SettlementInvariant == DeploymentInv /\ MessagesTyped /\ SuccessIsEarned

LEMMA SettlementInvInit == DeploymentInit => SettlementInvariant
<1> SUFFICES ASSUME DeploymentInit PROVE SettlementInvariant
  OBVIOUS
<1>1. MessagesTyped
  BY DEF DeploymentInit, MessagesTyped, None, Counters
<1>2. SuccessIsEarned
  BY DEF DeploymentInit, LedgerInit, Init, NoJob, None, SuccessIsEarned, Outcomes
<1> QED
  BY <1>1, <1>2, DeploymentInitInv DEF SettlementInvariant

LEMMA CounterChanged ==
    ASSUME NEW f \in [Jobs -> Counters(Outcomes)], NEW j \in Jobs, NEW o \in Outcomes, NEW n \in Nat
    PROVE  [f EXCEPT ![j][o] = n] \in [Jobs -> Counters(Outcomes)]
BY DEF Counters

(* What a message that changes neither a job nor the ledger's captured     *)
(* holds may do to the wire: news is lost or arrives.                      *)
LEMMA EarnedKept ==
    ASSUME SettlementInvariant, everCompleted \subseteq everCompleted',
           \A j \in Jobs :
             /\ job'[j].settle["succeeded"] > 0 => job[j].settle["succeeded"] > 0
             /\ wire'[j]["succeeded"] > 0 => wire[j]["succeeded"] > 0
             /\ holdStatus'[j] = "captured" => holdStatus[j] = "captured"
    PROVE  SuccessIsEarned'
BY DEF SettlementInvariant, SuccessIsEarned

LEMMA SendEarned ==
    ASSUME SettlementInvariant, NEW j \in Jobs, NEW o \in Outcomes, SendSettlement(j, o)
    PROVE  MessagesTyped' /\ SuccessIsEarned'
<1>1. job \in [Jobs -> JobRecord] /\ wire \in [Jobs -> Counters(Outcomes)]
      /\ job[j].settle[o] > 0
  BY DEF SettlementInvariant, DeploymentInv, JobsInv, MessagesTyped, SendSettlement, SettlementFires
<1>2. PICK n \in {wire[j][o], wire[j][o] + 1} : wire' = [wire EXCEPT ![j][o] = n]
  BY DEF SendSettlement
<1>3. wire[j][o] \in Nat /\ n \in Nat
  BY <1>1, <1>2 DEF Counters
<1>4. MessagesTyped'
  <2>1. wire' \in [Jobs -> Counters(Outcomes)]
    BY <1>1, <1>2, <1>3, CounterChanged
  <2>2. UNCHANGED <<reply, everCompleted, everFailed>>
    BY DEF SendSettlement
  <2> QED
    BY <2>1, <2>2 DEF SettlementInvariant, MessagesTyped
<1>5. \A i \in Jobs : job'[i].settle["succeeded"] > 0 => job[i].settle["succeeded"] > 0
  <2> DEFINE q == [job[j] EXCEPT !.settle[o] = @ - 1]
  <2>1. /\ q.settle = [job[j].settle EXCEPT ![o] = @ - 1]
        /\ [q EXCEPT !.calling[o] = @ + 1].settle = q.settle
    BY <1>1 DEF JobRecord
  <2>2. Becomes(j, q) \/ Becomes(j, [q EXCEPT !.calling[o] = @ + 1])
    BY DEF SendSettlement, SettlementFires
  <2>3. PICK r : Becomes(j, r) /\ r.settle = [job[j].settle EXCEPT ![o] = @ - 1]
    BY <2>1, <2>2
  <2>4. job'[j] = r /\ \A i \in Jobs \ {j} : job'[i] = job[i]
    BY <1>1, <2>3 DEF Becomes
  <2>5. job[j].settle \in Counters(Outcomes)
    BY <1>1 DEF JobRecord
  <2> QED
    BY <2>3, <2>4, <2>5 DEF Counters, Outcomes
<1>6. \A i \in Jobs : wire'[i]["succeeded"] > 0 =>
         wire[i]["succeeded"] > 0 \/ job[i].settle["succeeded"] > 0
  BY <1>1, <1>2 DEF Counters, Outcomes
<1>7. UNCHANGED <<holdStatus, everCompleted>>
  BY DEF SendSettlement, ledger
<1> QED
  BY <1>4, <1>5, <1>6, <1>7 DEF SettlementInvariant, SuccessIsEarned

(* A message arrives, or is lost, and is answered.                         *)
LEMMA WireTaken ==
    ASSUME SettlementInvariant, NEW j \in Jobs, NEW o \in Outcomes, wire[j][o] > 0,
           wire' = [wire EXCEPT ![j][o] = @ - 1], Answer(j, o),
           UNCHANGED <<everCompleted, everFailed>>
    PROVE  /\ MessagesTyped'
           /\ \A i \in Jobs : wire'[i]["succeeded"] > 0 => wire[i]["succeeded"] > 0
<1>1. wire \in [Jobs -> Counters(Outcomes)] /\ reply \in [Jobs -> Counters(Outcomes)]
  BY DEF SettlementInvariant, MessagesTyped
<1>2. wire[j][o] - 1 \in Nat
  BY <1>1 DEF Counters
<1>3. PICK n \in {reply[j][o], reply[j][o] + 1} : reply' = [reply EXCEPT ![j][o] = n]
  BY DEF Answer
<1>4. n \in Nat
  BY <1>1, <1>3 DEF Counters
<1>5. MessagesTyped'
  BY <1>1, <1>2, <1>3, <1>4, CounterChanged DEF SettlementInvariant, MessagesTyped
<1>6. \A i \in Jobs : wire'[i]["succeeded"] > 0 => wire[i]["succeeded"] > 0
  BY <1>1 DEF Counters, Outcomes
<1> QED
  BY <1>5, <1>6

LEMMA SettlesEarned ==
    ASSUME SettlementInvariant, NEW j \in Jobs, NEW o \in Outcomes,
           RegistrySettles(j, o) \/ SettlementRejected(j, o)
    PROVE  MessagesTyped' /\ SuccessIsEarned'
<1>1. /\ wire[j][o] > 0 /\ wire' = [wire EXCEPT ![j][o] = @ - 1] /\ Answer(j, o)
      /\ UNCHANGED <<job, everCompleted, everFailed>>
  BY DEF RegistrySettles, SettlementRejected
<1>2. MessagesTyped' /\ \A i \in Jobs : wire'[i]["succeeded"] > 0 => wire[i]["succeeded"] > 0
  BY <1>1, WireTaken
<1>3. holdStatus \in [Jobs -> HoldStatuses]
  BY DEF SettlementInvariant, DeploymentInv, LedgerInv, LedgerTypeOK
<1>4. \A i \in Jobs : holdStatus'[i] = "captured" =>
         holdStatus[i] = "captured" \/ (i = j /\ o = "succeeded")
  BY <1>3 DEF RegistrySettles, SettlementRejected, CaptureDeploymentHold, ReleaseDeploymentHold,
     ledger
<1> QED
  BY <1>1, <1>2, <1>4 DEF SettlementInvariant, SuccessIsEarned

LEMMA AnsweredEarned ==
    ASSUME SettlementInvariant, NEW j \in Jobs, NEW o \in Outcomes, SettlementAnswered(j, o)
    PROVE  MessagesTyped' /\ SuccessIsEarned'
<1>1. reply \in [Jobs -> Counters(Outcomes)] /\ job \in [Jobs -> JobRecord]
  BY DEF SettlementInvariant, MessagesTyped, DeploymentInv, JobsInv
<1>2. reply[j][o] - 1 \in Nat
  BY <1>1 DEF SettlementAnswered, Counters
<1>3. MessagesTyped'
  BY <1>1, <1>2, CounterChanged DEF SettlementAnswered, SettlementInvariant, MessagesTyped
<1>4. \A i \in Jobs : job'[i].settle = job[i].settle
  BY <1>1 DEF SettlementAnswered, SettlementReturns, Becomes, JobRecord
<1> QED
  BY <1>3, <1>4, EarnedKept DEF SettlementAnswered, ledger

(* The histories grow by the jobs that are in such a status now.           *)
LEMMA RememberedTyped ==
    ASSUME SettlementInvariant, Remembered
    PROVE  /\ everCompleted \subseteq everCompleted' /\ everCompleted' \subseteq Jobs
           /\ everFailed \subseteq everFailed' /\ everFailed' \subseteq Jobs
           /\ \A j \in Jobs : job'[j].status = "completed" => j \in everCompleted'
           /\ \A j \in Jobs : job'[j].status \in Failures => j \in everFailed'
BY DEF Remembered, InStatus, SettlementInvariant, MessagesTyped

(* A step inside the installer.                                            *)
LEMMA WorkEarned ==
    ASSUME SettlementInvariant, InstallerWorks
    PROVE  MessagesTyped' /\ SuccessIsEarned'
<1>1. StepAccounts /\ job \in [Jobs -> JobRecord]
  BY InstallerAccounts DEF SettlementInvariant, DeploymentInv, JobsInv
<1>2. Remembered /\ UNCHANGED <<wire, reply, holdStatus>>
  BY DEF InstallerWorks, InsideInstaller, ledger
<1>3. ASSUME NEW j \in Jobs, job'[j].settle["succeeded"] > 0
      PROVE  job[j].settle["succeeded"] > 0 \/ job'[j].status = "completed"
  BY <1>1, <1>3 DEF StepAccounts, Accounts, GoesOn, EndsAnew, Due, Terminal, JobRecord, Counters,
     Outcomes
<1> QED
  BY <1>2, <1>3, RememberedTyped DEF SettlementInvariant, MessagesTyped, SuccessIsEarned

(* The registry's calls create no success: a new job has none, and a job   *)
(* that is cancelled gets a failure.                                       *)
LEMMA CallsEarned ==
    ASSUME SettlementInvariant, NEW c \in Calls,
           EnqueueAnswers(c) \/ CallResumes(c) \/ CancelArrives(c)
    PROVE  MessagesTyped' /\ SuccessIsEarned'
<1>1. /\ UNCHANGED <<wire, reply>>
      /\ everCompleted \subseteq everCompleted' /\ everCompleted' \subseteq Jobs
      /\ everFailed \subseteq everFailed' /\ everFailed' \subseteq Jobs
  <2>1. CASE CallResumes(c)
    BY <2>1 DEF CallResumes, SettlementInvariant, MessagesTyped
  <2>2. CASE EnqueueAnswers(c) \/ CancelArrives(c)
    BY <2>2, RememberedTyped DEF EnqueueAnswers, CancelArrives
  <2> QED
    BY <2>1, <2>2
<1>2. job \in [Jobs -> JobRecord] /\ holdStatus \in [Jobs -> HoldStatuses]
  BY DEF SettlementInvariant, DeploymentInv, JobsInv, LedgerInv, LedgerTypeOK
<1>3. MessagesTyped'
  BY <1>1 DEF SettlementInvariant, MessagesTyped
<1>4. \A i \in Jobs : holdStatus'[i] = "captured" => holdStatus[i] = "captured"
  BY <1>2 DEF EnqueueAnswers, CallResumes, CancelArrives, CreateDeploymentHold, ledger
<1>5. \A i \in Jobs : job'[i].settle["succeeded"] > 0 => job[i].settle["succeeded"] > 0
  <2>1. CASE UNCHANGED job
    BY <2>1
  <2>2. CASE Enqueue(call[c].job)
    <3>1. PICK r : job' = [job EXCEPT ![call[c].job] = r] /\ r.settle["succeeded"] = 0
      <4>1. /\ \A t : Enqueued(t).settle["succeeded"] = 0
            /\ \A t : ArmSettlement(Enqueued(t), "failed").settle["succeeded"] = 0
            /\ \A t, n : [Enqueued(t) EXCEPT !.kicks = n].settle["succeeded"] = 0
        BY DEF Enqueued, ArmSettlement, NoJob, Outcomes
      <4>2. CASE EnqueueRejected(call[c].job)
        BY <4>1, <4>2 DEF EnqueueRejected, Becomes
      <4>3. CASE EnqueueCasals(call[c].job)
        BY <4>1, <4>3 DEF EnqueueCasals, Becomes
      <4>4. CASE EnqueueOffChain(call[c].job)
        BY <4>1, <4>4 DEF EnqueueOffChain, Becomes
      <4> QED
        BY <2>2, <4>2, <4>3, <4>4 DEF Enqueue
    <3> QED
      BY <1>2, <3>1
  <2>3. CASE CancelDeployment(call[c].job)
    <3>1. PICK r : job' = [job EXCEPT ![call[c].job] = r] /\ r = Cancelled(job[call[c].job])
      BY <2>3 DEF CancelDeployment, Becomes
    <3>2. \A q \in JobRecord : Cancelled(q).settle["succeeded"] = q.settle["succeeded"]
      BY DEF Cancelled, ArmSettlement, JobRecord, Counters, Outcomes
    <3> QED
      BY <1>2, <3>1, <3>2
  <2> QED
    BY <2>1, <2>2, <2>3 DEF EnqueueAnswers, CallResumes, CancelArrives
<1> QED
  BY <1>1, <1>3, <1>4, <1>5, EarnedKept

LEMMA UpgradeEarned ==
    ASSUME SettlementInvariant, InstallerUpgrade
    PROVE  MessagesTyped' /\ SuccessIsEarned'
<1>1. UNCHANGED <<wire, everCompleted, everFailed, holdStatus>> /\ reply' = None
  BY DEF InstallerUpgrade, ledger
<1>2. MessagesTyped'
  BY <1>1 DEF SettlementInvariant, MessagesTyped, None, Counters
<1>3. \A i \in Jobs : job'[i].settle["succeeded"] = 0
  <2> SUFFICES ASSUME NEW i \in Jobs PROVE job'[i].settle["succeeded"] = 0
    OBVIOUS
  <2> DEFINE kept == Stored(job[i])
  <2>1. /\ kept.settle["succeeded"] = 0
        /\ \A t : Resumed(kept, t).settle["succeeded"] = 0
        /\ \A t : [kept EXCEPT !.task = t].settle["succeeded"] = 0
    BY DEF Stored, Resumed, NoJob, Outcomes
  <2>2. \/ job'[i] = kept
        \/ \E t : job'[i] = Resumed(kept, t)
        \/ \E t : job'[i] = [kept EXCEPT !.task = t]
    <3>1. JobsInv /\ Upgrade
      BY DEF InstallerUpgrade, SettlementInvariant, DeploymentInv
    <3> QED
      BY <3>1, UpgradedJob
  <2> HIDE DEF kept
  <2> QED
    BY <2>1, <2>2
<1> QED
  BY <1>1, <1>2, <1>3, EarnedKept

LEMMA SettlementInvNext == SettlementInvariant /\ [DeploymentNext]_vars => SettlementInvariant'
<1> SUFFICES ASSUME SettlementInvariant, [DeploymentNext]_vars PROVE SettlementInvariant'
  OBVIOUS
<1>1. DeploymentInv'
  BY DeploymentNextInv DEF SettlementInvariant
<1>2. CASE \/ \E c \in Calls, u \in Users : RequestDeployment(c, u)
           \/ \E c \in Calls, j \in Jobs : EnqueueArrives(c, j)
           \/ \E m \in TestModes : Configure(m)
           \/ RegistryUpgrade \/ Billing \/ UNCHANGED vars
  <2>1. UNCHANGED <<job, wire, reply, everCompleted, everFailed, holdStatus>>
    BY <1>2 DEF RequestDeployment, EnqueueArrives, Configure, RegistryUpgrade, Billing,
       AddUserCredits, DeductUserCredits, CreditCaller, Deposit, holds, vars, ledger
  <2> QED
    BY <1>1, <2>1, EarnedKept DEF SettlementInvariant, MessagesTyped
<1> QED
  BY <1>1, <1>2, SendEarned, SettlesEarned, AnsweredEarned, WorkEarned, CallsEarned,
     UpgradeEarned DEF DeploymentNext, SettlementInvariant

THEOREM SettlementSound == DeploymentSpec => []SettlementInvariant
BY SettlementInvInit, SettlementInvNext, PTL DEF DeploymentSpec

(* The two canisters and everything under way between them are well typed  *)
(* for any number of users, calls and jobs.                                *)
THEOREM DeploymentTyping == DeploymentSpec => []DeploymentTypeOK
<1>1. SettlementInvariant => DeploymentTypeOK
  BY DEF SettlementInvariant, DeploymentInv, CallsTyped, JobsInv, LedgerInv, MessagesTyped,
     DeploymentTypeOK, TypeOK
<1> QED
  BY <1>1, SettlementSound, PTL

(* Nobody is charged for a deployment that was not completed: the registry *)
(* captures a hold only on a success that a completed job armed.           *)
THEOREM ChargesAreEarned == DeploymentSpec => []CapturedOnlyIfCompleted
<1>1. SettlementInvariant => CapturedOnlyIfCompleted
  BY DEF SettlementInvariant, SuccessIsEarned, CapturedOnlyIfCompleted
<1> QED
  BY <1>1, SettlementSound, PTL

----------------------------------------------------------------------------
(***************************************************************************)
(* When the two canisters agree: while a call waits for its reply, and     *)
(* while the hold is held, the news of a job that has ended is armed or on *)
(* its way, and it is the only news there is.                              *)
(***************************************************************************)

(* The job has ended with this outcome.                                    *)
EndedIn(r, o) == r.status \in Ended /\ o = Due(r.status)

(* No outcome but that of the job is reported, and it is reported once.    *)
ReportsOnce(r) ==
    /\ \A o \in Outcomes :
         /\ r.settle[o] > 0 \/ r.calling[o] > 0 => EndedIn(r, o)
         /\ r.settle[o] + r.calling[o] <= 1
         /\ r.settle[o] > 0 => ~ r.notified
    /\ r.notified => r.status \in Ended

OnCourse(j) ==
    /\ Straight(job[j])
    /\ ReportsOnce(job[j])
    /\ \A o \in Outcomes : wire[j][o] > 0 => EndedIn(job[j], o)

(* The registry has still to hear of the outcome, if there is one.         *)
HasNews(j) ==
    job[j].status \in Ended =>
        LET o == Due(job[j].status) IN job[j].settle[o] > 0 \/ wire[j][o] > 0

(* A call that waits for its reply, and a hold that is held, wait for the  *)
(* news; a hold that is settled was settled as the job ended.              *)
HoldFollows(j) ==
    /\ holdStatus[j] = "held" => HasNews(j)
    /\ holdStatus[j] = "captured" => job[j].status = "completed"
    /\ holdStatus[j] = "released" => job[j].status = "failed"

Waits(k) == k.phase = "created" /\ ~ k.lost
Paid(k) == k.phase = "accepted" /\ ~ k.skip
Followed(k) == k.phase \in {"created", "accepted"}

CallOnCourse(k, j) ==
    /\ Followed(k) => OnCourse(j)
    /\ Waits(k) => HasNews(j)
    /\ Paid(k) => HoldFollows(j)

Course == \A c \in Calls, j \in Jobs : call[c].job = j => CallOnCourse(call[c], j)

(* A job that does not exist has no news on its way.                       *)
Fresh ==
    /\ Unborn
    /\ \A j \in Jobs, o \in Outcomes : job[j].status = "none" => wire[j][o] = 0

CourseInv == SettlementInvariant /\ Fresh /\ Course

(* What a step does to a job that a call follows.                          *)
StaysOnCourse(j) ==
    /\ OnCourse(j) => OnCourse(j)' /\ (HasNews(j) => HasNews(j)')
    /\ job[j].status \in Ended => job'[j].status = job[j].status

LEMMA CallKept ==
    ASSUME NEW c \in Calls, NEW j \in Jobs,
           Followed(call[c])', Followed(call[c]),
           Waits(call[c])' => Waits(call[c]), Paid(call[c])' => Paid(call[c]),
           CallOnCourse(call[c], j), StaysOnCourse(j), holdStatus'[j] = holdStatus[j]
    PROVE  CallOnCourse(call[c], j)'
<1>1. OnCourse(j)' /\ (HasNews(j) => HasNews(j)')
      /\ (job[j].status \in Ended => job'[j].status = job[j].status)
  BY DEF StaysOnCourse, CallOnCourse
<1>2. HoldFollows(j) => HoldFollows(j)'
  BY <1>1 DEF HoldFollows, Ended
<1> QED
  BY <1>1, <1>2 DEF CallOnCourse

(* A step that leaves the holds alone, and creates no call to follow.      *)
LEMMA CourseKept ==
    ASSUME CourseInv, UNCHANGED holdStatus,
           \A c \in Calls : \A j \in Jobs :
             Followed(call[c])' /\ call'[c].job = j =>
               /\ Followed(call[c]) /\ call[c].job = j
               /\ Waits(call[c])' => Waits(call[c])
               /\ Paid(call[c])' => Paid(call[c])
               /\ StaysOnCourse(j)
    PROVE  Course'
<1> SUFFICES ASSUME NEW c \in Calls, NEW j \in Jobs, call'[c].job = j
             PROVE  CallOnCourse(call[c], j)'
  BY DEF Course
<1>1. CASE ~ Followed(call[c])'
  BY <1>1 DEF CallOnCourse, Followed, Waits, Paid
<1>2. CASE Followed(call[c])'
  <2>1. CallOnCourse(call[c], j)
    BY <1>2 DEF CourseInv, Course
  <2> QED
    BY <1>2, <2>1, CallKept
<1> QED
  BY <1>1, <1>2

LEMMA ProceedsOnCourse ==
    ASSUME NEW j \in Jobs, Proceeds(job[j], job'[j]), UNCHANGED wire,
           job[j] \in JobRecord, OnCourse(j)
    PROVE  StaysOnCourse(j)
<1> DEFINE q == job[j]
           r == job'[j]
<1>1. /\ Straight(r) /\ r.calling = q.calling /\ r.notified = q.notified
      /\ q.settle \in Counters(Outcomes) /\ q.calling \in Counters(Outcomes)
  BY DEF Proceeds, JobRecord
<1>2. CASE /\ r.settle = q.settle
           /\ r.status = q.status \/ (q.status \notin Ended /\ r.status \notin Ended)
  <2>1. \A o : EndedIn(q, o) => EndedIn(r, o)
    BY <1>2 DEF EndedIn
  <2>2. ReportsOnce(r)
    BY <1>1, <1>2, <2>1 DEF OnCourse, ReportsOnce
  <2> QED
    BY <1>1, <1>2, <2>1, <2>2 DEF StaysOnCourse, OnCourse, HasNews
<1>3. CASE /\ q.status \notin Ended /\ r.status \in Ended
           /\ r.settle = [q.settle EXCEPT ![Due(r.status)] = @ + 1]
  <2> DEFINE d == Due(r.status)
  <2>1. d \in Outcomes /\ EndedIn(r, d)
    BY <1>3 DEF Due, Outcomes, EndedIn
  <2>2. \A o \in Outcomes : q.settle[o] = 0 /\ q.calling[o] = 0 /\ ~ wire[j][o] > 0
    BY <1>1, <1>3 DEF OnCourse, ReportsOnce, EndedIn, Counters
  <2>3. ~ q.notified
    BY <1>3 DEF OnCourse, ReportsOnce
  <2>4. r.settle[d] = 1 /\ \A o \in Outcomes \ {d} : r.settle[o] = 0
    BY <1>1, <1>3, <2>1, <2>2 DEF Counters
  <2>5. ReportsOnce(r)
    BY <1>1, <2>1, <2>2, <2>3, <2>4 DEF ReportsOnce
  <2> QED
    BY <1>1, <1>3, <2>1, <2>2, <2>4, <2>5 DEF StaysOnCourse, OnCourse, HasNews
<1> QED
  BY <1>2, <1>3 DEF Proceeds

(* A step that leaves the calls alone too.                                 *)
LEMMA JobsOnCourse ==
    ASSUME CourseInv, UNCHANGED holdStatus, UNCHANGED call,
           \A j \in Jobs : OnCourse(j) => StaysOnCourse(j)
    PROVE  Course'
<1> SUFFICES ASSUME NEW c \in Calls, NEW j \in Jobs, Followed(call[c])', call'[c].job = j
             PROVE  /\ Followed(call[c]) /\ call[c].job = j
                    /\ Waits(call[c])' => Waits(call[c])
                    /\ Paid(call[c])' => Paid(call[c])
                    /\ StaysOnCourse(j)
  BY CourseKept
<1>1. call'[c] = call[c] /\ Followed(call[c]) /\ call[c].job = j
  BY DEF Followed
<1>2. OnCourse(j)
  BY <1>1 DEF CourseInv, Course, CallOnCourse
<1> QED
  BY <1>1, <1>2 DEF Waits, Paid

LEMMA IdleOnCourse ==
    ASSUME NEW j \in Jobs, job'[j] = job[j], wire'[j] = wire[j]
    PROVE  StaysOnCourse(j)
BY DEF StaysOnCourse, OnCourse, HasNews

(* The installer at work.                                                  *)
LEMMA WorkOnCourse ==
    ASSUME Undisturbed, CourseInv, InstallerWorks
    PROVE  Course'
<1>1. JobsInv /\ job \in [Jobs -> JobRecord] /\ UNCHANGED <<wire, call, holdStatus>>
  BY DEF CourseInv, SettlementInvariant, DeploymentInv, JobsInv, InstallerWorks,
     InsideInstaller, ledger
<1>2. ASSUME NEW i \in Jobs, OnCourse(i)
      PROVE  StaysOnCourse(i)
  <2>1. Straight(job[i]) /\ job[i] \in JobRecord
    BY <1>1, <1>2 DEF OnCourse
  <2>2. ASSUME NEW j \in Jobs, JobStep(j)
        PROVE  StaysOnCourse(i)
    <3>1. CASE i = j
      <4>1. PICK r : Becomes(i, r) /\ Proceeds(job[i], r)
        BY <1>1, <2>1, <2>2, <3>1, JobStepProceeds DEF ProceedsOn
      <4>2. job'[i] = r
        BY <1>1, <4>1 DEF Becomes
      <4> QED
        BY <1>1, <1>2, <2>1, <4>1, <4>2, ProceedsOnCourse
    <3>2. CASE i # j
      <4>1. PICK r : job' = [job EXCEPT ![j] = r]
        <5>1. job[j].status # "none"
          BY <2>2, UnbornRests DEF CourseInv, Fresh, Unborn
        <5> QED
          BY <1>1, <2>2, <5>1, JobStepAdvances DEF Advances, Becomes
      <4>2. job'[i] = job[i] /\ wire'[i] = wire[i]
        BY <1>1, <3>2, <4>1
      <4> QED
        BY <4>2, IdleOnCourse
    <3> QED
      BY <3>1, <3>2
  <2>3. CASE Heartbeat
    <3>1. Proceeds(job[i], job'[i])
      BY <1>1, <2>1, <2>3, HeartbeatProceeds
    <3> QED
      BY <1>1, <1>2, <2>1, <3>1, ProceedsOnCourse
  <2> QED
    BY <2>2, <2>3 DEF InstallerWorks
<1> QED
  BY <1>1, <1>2, JobsOnCourse

(* The news leaves for the registry: an outcome that is armed has not been *)
(* answered yet, so the callback does not drop it.                         *)
LEMMA SendOnCourse ==
    ASSUME CourseInv, NEW i \in Jobs, NEW o \in Outcomes, SendSettlement(i, o)
    PROVE  Course'
<1>1. /\ job \in [Jobs -> JobRecord] /\ wire \in [Jobs -> Counters(Outcomes)]
      /\ UNCHANGED <<call, holdStatus>> /\ job[i].settle[o] > 0
  BY DEF CourseInv, SettlementInvariant, DeploymentInv, JobsInv, MessagesTyped, SendSettlement,
     SettlementFires, ledger
<1>2. ASSUME NEW j \in Jobs, OnCourse(j)
      PROVE  StaysOnCourse(j)
  <2>1. CASE j # i
    <3>1. PICK r : job' = [job EXCEPT ![i] = r]
      BY DEF SendSettlement, SettlementFires, Becomes
    <3>2. job'[j] = job[j] /\ wire'[j] = wire[j]
      BY <1>1, <2>1, <3>1 DEF SendSettlement
    <3> QED
      BY <3>2, IdleOnCourse
  <2>2. CASE j = i
    <3> DEFINE q == job[i]
               s == [q EXCEPT !.settle[o] = @ - 1]
               r == [s EXCEPT !.calling[o] = @ + 1]
    <3>1. q \in JobRecord /\ ReportsOnce(q) /\ EndedIn(q, o)
      BY <1>1, <1>2, <2>2 DEF OnCourse, ReportsOnce
    <3>2. ~ s.notified
      BY <1>1, <3>1 DEF ReportsOnce, JobRecord
    <3>3. job'[i] = r
      BY <1>1, <3>2 DEF SendSettlement, SettlementFires, Becomes
    <3>4. /\ r.settle = [q.settle EXCEPT ![o] = @ - 1]
          /\ r.calling = [q.calling EXCEPT ![o] = @ + 1]
          /\ r.status = q.status /\ r.notified = q.notified /\ r.report = q.report
          /\ r.task = q.task /\ r.lock = q.lock /\ r.kicks = q.kicks /\ r.pass = q.pass
          /\ r.runner = q.runner /\ r.registration = q.registration
      BY <3>1 DEF JobRecord
    <3>5. q.settle \in Counters(Outcomes) /\ q.calling \in Counters(Outcomes)
      BY <3>1 DEF JobRecord
    <3>6. wire'[i] = [wire[i] EXCEPT ![o] = @ + 1]
      <4>1. job'[i].calling[o] > job[i].calling[o]
        BY <3>3, <3>4, <3>5 DEF Counters
      <4> QED
        BY <1>1, <4>1 DEF SendSettlement
    <3>7. wire[i] \in Counters(Outcomes)
      BY <1>1
    <3> HIDE DEF s, r
    <3>8. Straight(job'[i])
      BY <1>2, <2>2, <3>3, <3>4 DEF OnCourse, Straight, Awaits, Provisions, Bootstraps, Deploys,
         Abandoned, Registers, Rests, AtWork
    <3>9. ReportsOnce(job'[i])
      <4>1. \A x : EndedIn(r, x) <=> EndedIn(q, x)
        BY <3>4 DEF EndedIn
      <4>2. ~ q.notified
        BY <1>1, <3>1 DEF ReportsOnce
      <4>3. ~ r.notified
        BY <3>4, <4>2
      <4> QED
        BY <3>1, <3>3, <3>4, <3>5, <4>1, <4>3 DEF ReportsOnce, Counters
    <3>10. \A x \in Outcomes : wire'[i][x] > 0 => EndedIn(job'[i], x)
      BY <1>2, <2>2, <3>1, <3>3, <3>4, <3>6, <3>7 DEF OnCourse, EndedIn, Counters
    <3>11. HasNews(i)'
      BY <3>1, <3>3, <3>4, <3>6, <3>7 DEF HasNews, EndedIn, Counters
    <3> QED
      BY <2>2, <3>3, <3>4, <3>8, <3>9, <3>10, <3>11 DEF StaysOnCourse, OnCourse
  <2> QED
    BY <2>1, <2>2
<1> QED
  BY <1>1, <1>2, JobsOnCourse

LEMMA AnsweredOnCourse ==
    ASSUME CourseInv, NEW i \in Jobs, NEW o \in Outcomes, SettlementAnswered(i, o)
    PROVE  Course'
<1>1. /\ job \in [Jobs -> JobRecord]
      /\ UNCHANGED <<call, holdStatus, wire>> /\ job[i].calling[o] > 0
      /\ Becomes(i, [job[i] EXCEPT !.calling[o] = @ - 1, !.notified = TRUE])
  BY DEF CourseInv, SettlementInvariant, DeploymentInv, JobsInv, SettlementAnswered,
     SettlementReturns, ledger
<1>2. ASSUME NEW j \in Jobs, OnCourse(j)
      PROVE  StaysOnCourse(j)
  <2>1. CASE j # i
    BY <1>1, <2>1, IdleOnCourse DEF Becomes
  <2>2. CASE j = i
    <3> DEFINE q == job[i]
               r == [q EXCEPT !.calling[o] = @ - 1, !.notified = TRUE]
    <3>1. q \in JobRecord /\ ReportsOnce(q) /\ EndedIn(q, o) /\ job'[i] = r
      BY <1>1, <1>2, <2>2 DEF OnCourse, ReportsOnce, Becomes
    <3>2. /\ r.calling = [q.calling EXCEPT ![o] = @ - 1]
          /\ r.settle = q.settle /\ r.status = q.status /\ r.report = q.report
          /\ r.task = q.task /\ r.lock = q.lock /\ r.kicks = q.kicks /\ r.pass = q.pass
          /\ r.runner = q.runner /\ r.registration = q.registration
      BY <3>1 DEF JobRecord
    <3>3. q.settle \in Counters(Outcomes) /\ q.calling \in Counters(Outcomes)
      BY <3>1 DEF JobRecord
    <3> HIDE DEF r
    <3>4. Straight(job'[i])
      BY <1>2, <2>2, <3>1, <3>2 DEF OnCourse, Straight, Awaits, Provisions, Bootstraps, Deploys,
         Abandoned, Registers, Rests, AtWork
    <3>5. ReportsOnce(job'[i])
      <4>1. \A x : EndedIn(r, x) <=> EndedIn(q, x)
        BY <3>2 DEF EndedIn
      <4>2. \A x \in Outcomes : q.settle[x] = 0
        BY <1>1, <3>1, <3>3 DEF ReportsOnce, EndedIn, Counters
      <4> QED
        BY <3>1, <3>2, <3>3, <4>1, <4>2 DEF ReportsOnce, EndedIn, Counters
    <3> QED
      BY <1>1, <2>2, <3>1, <3>2, <3>4, <3>5 DEF StaysOnCourse, OnCourse, HasNews, EndedIn
  <2> QED
    BY <2>1, <2>2
<1> QED
  BY <1>1, <1>2, JobsOnCourse

(* The news arrives, with no call waiting for its reply: the hold of the   *)
(* job is settled as the job ended.                                        *)
LEMMA SettlesOnCourse ==
    ASSUME ReplyFirst, CourseInv, NEW i \in Jobs, NEW o \in Outcomes, RegistrySettles(i, o)
    PROVE  Course'
<1>1. /\ wire \in [Jobs -> Counters(Outcomes)] /\ holdStatus \in [Jobs -> HoldStatuses]
      /\ UNCHANGED <<call, job>> /\ wire[i][o] > 0 /\ wire' = [wire EXCEPT ![i][o] = @ - 1]
      /\ \A c \in Calls : call[c].job = i => ~ Waits(call[c])
  BY DEF CourseInv, SettlementInvariant, DeploymentInv, LedgerInv, LedgerTypeOK, MessagesTyped,
     RegistrySettles, MayBeDelivered, Waits
<1>2. /\ \A j \in Jobs \ {i} : holdStatus'[j] = holdStatus[j]
      /\ holdStatus[i] # "held" => holdStatus'[i] = holdStatus[i]
      /\ holdStatus[i] = "held" =>
           holdStatus'[i] = IF o = "succeeded" THEN "captured" ELSE "released"
  <2>1. CASE UNCHANGED holdStatus /\ holdStatus[i] # "held"
    BY <2>1
  <2>2. CASE o = "succeeded" /\ CaptureDeploymentHold(i)
    BY <1>1, <2>2 DEF CaptureDeploymentHold
  <2>3. CASE o = "failed" /\ ReleaseDeploymentHold(i)
    BY <1>1, <2>3 DEF ReleaseDeploymentHold
  <2> QED
    BY <2>1, <2>2, <2>3 DEF RegistrySettles, ledger
<1> SUFFICES ASSUME NEW c \in Calls, NEW j \in Jobs, call'[c].job = j
             PROVE  CallOnCourse(call[c], j)'
  BY DEF Course
<1>3. call'[c] = call[c] /\ call[c].job = j /\ CallOnCourse(call[c], j)
  BY <1>1 DEF CourseInv, Course
<1>4. CASE ~ Followed(call[c])
  BY <1>3, <1>4 DEF CallOnCourse, Followed, Waits, Paid
<1>5. CASE Followed(call[c]) /\ j # i
  <2>1. StaysOnCourse(j)
    BY <1>1, <1>5, IdleOnCourse
  <2> QED
    BY <1>2, <1>3, <1>5, <2>1, CallKept DEF Followed, Waits, Paid
<1>6. CASE Followed(call[c]) /\ j = i
  <2>1. OnCourse(i) /\ ~ Waits(call[c]) /\ (Paid(call[c]) => HoldFollows(i))
    BY <1>1, <1>3, <1>6 DEF CallOnCourse
  <2>2. EndedIn(job[i], o)
    BY <1>1, <2>1 DEF OnCourse
  <2>3. OnCourse(i)'
    <3>1. \A x \in Outcomes : wire'[i][x] > 0 => wire[i][x] > 0
      BY <1>1 DEF Counters
    <3> QED
      BY <1>1, <2>1, <3>1 DEF OnCourse
  <2>4. HoldFollows(i) => HoldFollows(i)'
    BY <1>1, <1>2, <2>2 DEF HoldFollows, EndedIn, Due, Ended, Outcomes
  <2> QED
    BY <1>3, <1>6, <2>1, <2>3, <2>4 DEF CallOnCourse, Waits, Paid
<1> QED
  BY <1>4, <1>5, <1>6

(* The registry's own steps, which create no job and no hold.              *)
LEMMA RegistryOnCourse ==
    ASSUME CourseInv, UNCHANGED <<job, wire, holdStatus>>,
           \A c \in Calls :
             Followed(call[c])' =>
               /\ Followed(call[c]) /\ call'[c].job = call[c].job
               /\ Waits(call[c])' => Waits(call[c])
               /\ Paid(call[c])' => Paid(call[c])
    PROVE  Course'
BY CourseKept, IdleOnCourse

(* A call that is cancelled shares its job with no call that is followed.  *)
LEMMA CancelOnCourse ==
    ASSUME CourseInv, NEW d \in Calls, CancelArrives(d)
    PROVE  Course'
<1> DEFINE i == call[d].job
<1>1. /\ call \in [Calls -> CallRecord] /\ job \in [Jobs -> JobRecord] /\ CallsOwnJobs
      /\ call[d].phase = "cancelling" /\ call' = [call EXCEPT ![d].phase = "refused"]
      /\ UNCHANGED <<wire, holdStatus>> /\ i \in Jobs
      /\ \A j \in Jobs \ {i} : job'[j] = job[j]
  BY DEF CourseInv, SettlementInvariant, DeploymentInv, CallsTyped, JobsInv, CancelArrives,
     CancelDeployment, Becomes, ledger
<1> SUFFICES ASSUME NEW c \in Calls, NEW j \in Jobs, Followed(call[c])', call'[c].job = j
             PROVE  /\ Followed(call[c]) /\ call[c].job = j
                    /\ Waits(call[c])' => Waits(call[c])
                    /\ Paid(call[c])' => Paid(call[c])
                    /\ StaysOnCourse(j)
  BY <1>1, CourseKept
<1>2. c # d
  BY <1>1 DEF Followed, CallRecord
<1>3. call'[c] = call[c] /\ Followed(call[c]) /\ call[c].job = j
  BY <1>1, <1>2 DEF Followed
<1>4. j # i
  BY <1>1, <1>2, <1>3 DEF CallsOwnJobs, Placed, Followed
<1>5. StaysOnCourse(j)
  BY <1>1, <1>4, IdleOnCourse
<1> QED
  BY <1>3, <1>5 DEF Waits, Paid

(* A new job starts on its course, or has failed at once with its news.    *)
LEMMA EnqueueOnCourse ==
    ASSUME Undisturbed, CourseInv, NEW d \in Calls, EnqueueAnswers(d),
           NEW i \in Jobs, call[d].job = i
    PROVE  Course'
<1>1. /\ call \in [Calls -> CallRecord] /\ job \in [Jobs -> JobRecord] /\ CallsOwnJobs
      /\ wire \in [Jobs -> Counters(Outcomes)]
      /\ call[d].phase = "preflight" /\ UNCHANGED <<wire, holdStatus>>
  BY DEF CourseInv, SettlementInvariant, DeploymentInv, CallsTyped, JobsInv, MessagesTyped,
     EnqueueAnswers, ledger
<1>2. CASE call' = [call EXCEPT ![d].phase = "rejected"] /\ UNCHANGED job
  BY <1>1, <1>2, RegistryOnCourse DEF Followed, Waits, Paid, CallRecord
<1>3. CASE Enqueue(i) /\ call' = [call EXCEPT ![d].phase = "created"]
  <2>1. job[i].status = "none" /\ \A o \in Outcomes : wire[i][o] = 0
    BY <1>1, <1>3 DEF Enqueue, EnqueueRejected, EnqueueCasals, EnqueueOffChain, CourseInv, Fresh
  <2>2. PICK r : /\ Becomes(i, r)
                 /\ Straight(r) /\ ReportsOnce(r)
                 /\ r.status \in Ended => r.settle[Due(r.status)] > 0
    <3>1. CASE EnqueueRejected(i)
      <4> DEFINE r == ArmSettlement(Enqueued("failed"), "failed")
      <4>1. /\ r.status = "failed" /\ r.report = No(ReportPhases) /\ Rests(r)
            /\ r.settle = [o \in Outcomes |-> IF o = "failed" THEN 1 ELSE 0]
            /\ r.calling = [o \in Outcomes |-> 0] /\ ~ r.notified
        BY DEF ArmSettlement, Enqueued, NoJob, Rests, AtWork, No, Outcomes
      <4>2. Straight(r) /\ ReportsOnce(r) /\ r.settle[Due(r.status)] > 0
        BY <4>1 DEF Straight, ReportsOnce, EndedIn, Ended, Due, Outcomes
      <4> QED
        BY <3>1, <4>2 DEF EnqueueRejected
    <3>2. CASE EnqueueCasals(i)
      <4> DEFINE r == [Enqueued("provisioning") EXCEPT
                         !.kicks = IF ProvisionViaCasals THEN 1 ELSE 0]
      <4>1. /\ r.status = "provisioning" /\ r.report = No(ReportPhases) /\ r.task = "none"
            /\ r.lock = "free" /\ r.kicks \in {0, 1} /\ r.pass = No(PassPhases)
            /\ r.runner = No(Legs) /\ r.registration = No(Legs)
            /\ r.settle = [o \in Outcomes |-> 0]
            /\ r.calling = [o \in Outcomes |-> 0] /\ ~ r.notified
        BY DEF Enqueued, NoJob, No
      <4>2. Straight(r) /\ ReportsOnce(r) /\ r.status \notin Ended
        BY <4>1 DEF Straight, Awaits, AtWork, ReportsOnce, EndedIn, Ended
      <4> QED
        BY <3>2, <4>2 DEF EnqueueCasals
    <3> QED
      BY <1>3, <3>1, <3>2 DEF Enqueue, EnqueueOffChain, Undisturbed
  <2>3. job'[i] = r /\ \A j \in Jobs \ {i} : job'[j] = job[j]
    BY <1>1, <2>2 DEF Becomes
  <2>4. OnCourse(i)' /\ HasNews(i)'
    BY <1>1, <2>1, <2>2, <2>3 DEF OnCourse, HasNews
  <2> SUFFICES ASSUME NEW c \in Calls, NEW j \in Jobs, call'[c].job = j
               PROVE  CallOnCourse(call[c], j)'
    BY DEF Course
  <2>5. CASE c = d
    <3>1. j = i /\ call'[c].phase = "created"
      BY <1>1, <1>3, <2>5 DEF CallRecord
    <3> QED
      BY <2>4, <3>1 DEF CallOnCourse, Paid
  <2>6. CASE c # d
    <3>1. call'[c] = call[c] /\ call[c].job = j
      BY <1>3, <2>6
    <3>2. CallOnCourse(call[c], j)
      BY <3>1 DEF CourseInv, Course
    <3>3. CASE ~ Followed(call[c])
      BY <3>1, <3>3 DEF CallOnCourse, Followed, Waits, Paid
    <3>4. CASE Followed(call[c])
      <4>1. j # i
        BY <2>1, <3>1, <3>4 DEF CourseInv, SettlementInvariant, DeploymentInv, CallsOwnJobs, Placed,
           Followed, Known
      <4>2. StaysOnCourse(j)
        BY <1>1, <2>3, <4>1, IdleOnCourse
      <4> QED
        BY <1>1, <3>1, <3>2, <3>4, <4>2, CallKept DEF Followed, Waits, Paid
    <3> QED
      BY <3>3, <3>4
  <2> QED
    BY <2>5, <2>6
<1> QED
  BY <1>2, <1>3 DEF EnqueueAnswers

(* The hold that is created now is settled by the news that waited for it. *)
LEMMA ResumesOnCourse ==
    ASSUME CourseInv, NEW d \in Calls, CallResumes(d), NEW i \in Jobs, call[d].job = i
    PROVE  Course'
<1>1. /\ call \in [Calls -> CallRecord] /\ CallsOwnJobs /\ HoldsAreOwned
      /\ holdStatus \in [Jobs -> HoldStatuses]
      /\ ~ call[d].lost /\ call[d].phase \in {"rejected", "created"}
      /\ UNCHANGED <<wire, job>>
  BY DEF CourseInv, SettlementInvariant, DeploymentInv, CallsTyped, LedgerInv, LedgerTypeOK,
     CallResumes
<1>2. PICK p \in {"refused", "accepted", "cancelling"} :
        /\ call' = [call EXCEPT ![d].phase = p]
        /\ call[d].phase = "rejected" => p = "refused"
        /\ IF p = "accepted" /\ ~ call[d].skip /\ holdStatus[i] = "none"
           THEN CreateDeploymentHold(call[d].user, i)
           ELSE UNCHANGED ledger
  BY DEF CallResumes
<1>3. /\ call'[d].phase = p /\ call'[d].job = i /\ call'[d].skip = call[d].skip
      /\ \A c \in Calls \ {d} : call'[c] = call[c]
  BY <1>1, <1>2 DEF CallRecord
<1>4. CASE p # "accepted" \/ call[d].skip
  <2>1. UNCHANGED <<job, wire, holdStatus>>
    BY <1>1, <1>2, <1>4 DEF ledger
  <2>2. ASSUME NEW c \in Calls, Followed(call[c])'
        PROVE  /\ Followed(call[c]) /\ call'[c].job = call[c].job
               /\ Waits(call[c])' => Waits(call[c])
               /\ Paid(call[c])' => Paid(call[c])
    BY <1>1, <1>2, <1>3, <1>4, <2>2 DEF Followed, Waits, Paid
  <2> QED
    BY <2>1, <2>2, RegistryOnCourse
<1>5. CASE p = "accepted" /\ ~ call[d].skip
  <2>1. call[d].phase = "created" /\ Waits(call[d])
    BY <1>1, <1>2, <1>5 DEF Waits
  <2>2. holdStatus[i] = "none"
    <3> SUFFICES ASSUME holdStatus[i] # "none" PROVE FALSE
      OBVIOUS
    <3>1. PICK c \in Calls : call[c].phase = "accepted" /\ call[c].job = i
      BY <1>1 DEF HoldsAreOwned
    <3> QED
      BY <1>1, <2>1, <3>1 DEF CallsOwnJobs, Placed
  <2>3. holdStatus'[i] = "held" /\ \A j \in Jobs \ {i} : holdStatus'[j] = holdStatus[j]
    BY <1>1, <1>2, <1>5, <2>2 DEF CreateDeploymentHold
  <2>4. OnCourse(i) /\ HasNews(i)
    BY <1>1, <2>1 DEF CourseInv, Course, CallOnCourse, Followed
  <2>5. OnCourse(i)' /\ HasNews(i)'
    BY <1>1, <2>4 DEF OnCourse, HasNews
  <2> SUFFICES ASSUME NEW c \in Calls, NEW j \in Jobs, call'[c].job = j
               PROVE  CallOnCourse(call[c], j)'
    BY DEF Course
  <2>6. CASE c = d
    <3>1. j = i /\ call'[c].phase = "accepted"
      BY <1>3, <1>5, <2>6
    <3> QED
      BY <2>3, <2>5, <3>1 DEF CallOnCourse, HoldFollows, Waits
  <2>7. CASE c # d
    <3>1. call'[c] = call[c] /\ call[c].job = j
      BY <1>3, <2>7
    <3>2. CallOnCourse(call[c], j)
      BY <3>1 DEF CourseInv, Course
    <3>3. CASE ~ Followed(call[c])
      BY <3>1, <3>3 DEF CallOnCourse, Followed, Waits, Paid
    <3>4. CASE Followed(call[c])
      <4>1. j # i
        BY <1>1, <2>1, <2>7, <3>1, <3>4 DEF CallsOwnJobs, Placed, Followed
      <4>2. StaysOnCourse(j)
        BY <1>1, IdleOnCourse
      <4> QED
        BY <2>3, <3>1, <3>2, <3>4, <4>1, <4>2, CallKept DEF Followed, Waits, Paid
    <3> QED
      BY <3>3, <3>4
  <2> QED
    BY <2>6, <2>7
<1> QED
  BY <1>4, <1>5

(* Nothing happens to a job that does not exist but its creation.          *)
LEMMA FreshNext == SettlementInvariant /\ Fresh /\ [DeploymentNext]_vars => Fresh'
<1> SUFFICES ASSUME SettlementInvariant, Fresh, [DeploymentNext]_vars PROVE Fresh'
  OBVIOUS
<1>1. CallsTyped /\ JobsInv /\ LifeInv /\ wire \in [Jobs -> Counters(Outcomes)]
  BY DEF SettlementInvariant, DeploymentInv, MessagesTyped, Fresh, LifeInv
<1>2. ASSUME \A j \in Jobs : LivesOn(j),
             \A j \in Jobs : job[j].status = "none" => wire'[j] = wire[j]
      PROVE  Fresh'
  BY <1>2 DEF Fresh, Unborn, LivesOn
<1>3. CASE UNCHANGED <<job, wire>>
  BY <1>3 DEF Fresh, Unborn
<1>4. CASE [Next]_job /\ UNCHANGED wire
  BY <1>1, <1>2, <1>4, StepLivesOn
<1>5. ASSUME NEW c \in Calls, EnqueueAnswers(c)
      PROVE  Fresh'
  BY <1>1, <1>4, <1>5 DEF EnqueueAnswers, CallsTyped, Next
<1>6. ASSUME NEW c \in Calls, CancelArrives(c)
      PROVE  Fresh'
  <2>1. CASE UNCHANGED job
    BY <1>3, <1>6, <2>1 DEF CancelArrives
  <2>2. CASE CancelDeployment(call[c].job)
    <3>1. PICK i \in Jobs : i = call[c].job
      BY <1>1, <1>6 DEF CallsTyped, CancelArrives
    <3>2. job[i] \in JobRecord /\ Kickable(job[i]) /\ Becomes(i, Cancelled(job[i]))
      BY <1>1, <2>2, <3>1 DEF JobsInv, CancelDeployment
    <3>3. Cancelled(job[i]).status = "cancelled"
      BY <3>2 DEF Cancelled, ArmSettlement, JobRecord
    <3>4. Advances(i)
      BY <3>2, <3>3, AdvanceByStatus DEF Follows
    <3>5. \A j \in Jobs : LivesOn(j)
      BY <1>1, <3>4, AdvanceLivesOn DEF LifeInv
    <3> QED
      BY <1>2, <1>6, <3>5 DEF CancelArrives
  <2> QED
    BY <1>6, <2>1, <2>2 DEF CancelArrives
<1>7. ASSUME NEW j \in Jobs, NEW o \in Outcomes, SendSettlement(j, o)
      PROVE  Fresh'
  <2>1. Next /\ job[j].status # "none"
    BY <1>1, <1>7, UnbornRests DEF SendSettlement, Next, LifeInv, Unborn
  <2>2. \A i \in Jobs \ {j} : wire'[i] = wire[i]
    BY <1>1, <1>7 DEF SendSettlement
  <2> QED
    BY <1>1, <1>2, <2>1, <2>2, StepLivesOn
<1>8. ASSUME NEW j \in Jobs, NEW o \in Outcomes, SettlementAnswered(j, o)
      PROVE  Fresh'
  BY <1>4, <1>8 DEF SettlementAnswered, Next
<1>9. ASSUME NEW j \in Jobs, NEW o \in Outcomes,
             RegistrySettles(j, o) \/ SettlementRejected(j, o)
      PROVE  Fresh'
  <2>1. /\ wire[j][o] > 0 /\ wire' = [wire EXCEPT ![j][o] = @ - 1] /\ UNCHANGED job
    BY <1>9 DEF RegistrySettles, SettlementRejected
  <2>2. job[j].status # "none"
    BY <1>1, <2>1 DEF Fresh
  <2>3. \A i \in Jobs \ {j} : wire'[i] = wire[i]
    BY <1>1, <2>1
  <2>4. \A i \in Jobs : LivesOn(i)
    BY <1>1, <2>1, StepLivesOn
  <2> QED
    BY <1>2, <2>2, <2>3, <2>4
<1>10. CASE InstallerWorks \/ InstallerUpgrade
  BY <1>4, <1>10 DEF InstallerWorks, InsideInstaller, InstallerUpgrade, Next
<1>11. CASE \/ \E c \in Calls, u \in Users : RequestDeployment(c, u)
            \/ \E c \in Calls, j \in Jobs : EnqueueArrives(c, j)
            \/ \E c \in Calls : CallResumes(c)
            \/ \E m \in TestModes : Configure(m)
            \/ RegistryUpgrade \/ Billing \/ UNCHANGED vars
  BY <1>3, <1>11 DEF RequestDeployment, EnqueueArrives, CallResumes, Configure, RegistryUpgrade,
     Billing, vars
<1> QED
  BY <1>5, <1>6, <1>7, <1>8, <1>9, <1>10, <1>11 DEF DeploymentNext

(* When all is quiet, no news is armed, under way or unanswered.           *)
LEMMA NothingLeft ==
    ASSUME NEW j \in Jobs, job[j] \in JobRecord, wire[j] \in Counters(Outcomes), Quiet(j),
           NEW o \in Outcomes
    PROVE  job[j].settle[o] = 0 /\ job[j].calling[o] = 0 /\ wire[j][o] = 0
<1>1. \A x, y, z \in Nat : x + y + z = 0 => x = 0 /\ y = 0 /\ z = 0
  OBVIOUS
<1>2. job[j].settle[o] \in Nat /\ job[j].calling[o] \in Nat /\ wire[j][o] \in Nat
  BY DEF JobRecord, Counters
<1>3. job[j].settle[o] + job[j].calling[o] + wire[j][o] = 0
  BY DEF Quiet
<1> QED
  BY <1>1, <1>2, <1>3

(* Replies are not overtaken, and the registry is there for every          *)
(* settlement.                                                             *)
Heard == ReplyFirst /\ "settlement_rejected" \notin Losses

LEMMA CourseNext ==
    ASSUME Undisturbed, Heard
    PROVE  CourseInv /\ [DeploymentNext]_vars => CourseInv'
<1> SUFFICES ASSUME CourseInv, [DeploymentNext]_vars PROVE CourseInv'
  OBVIOUS
<1>1. SettlementInvariant' /\ Fresh'
  BY SettlementInvNext, FreshNext DEF CourseInv
<1> SUFFICES Course'
  BY <1>1 DEF CourseInv
<1>2. call \in [Calls -> CallRecord] /\ CallsTyped
  BY DEF CourseInv, SettlementInvariant, DeploymentInv, CallsTyped
<1>3. ASSUME NEW c \in Calls, NEW u \in Users, RequestDeployment(c, u)
      PROVE  Course'
  <2>1. UNCHANGED <<job, wire, holdStatus>>
    BY <1>3 DEF RequestDeployment, ledger
  <2>2. ~ Followed(call[c])' /\ \A d \in Calls \ {c} : call'[d] = call[d]
    <3> DEFINE r == [call[c] EXCEPT !.phase = "enqueueing", !.user = u, !.skip = canTestMode]
    <3>1. r.phase = "enqueueing" /\ call' = [call EXCEPT ![c] = r]
      BY <1>2, <1>3 DEF RequestDeployment, CallRecord
    <3> HIDE DEF r
    <3> QED
      BY <1>2, <3>1 DEF Followed
  <2> QED
    BY <2>1, <2>2, RegistryOnCourse DEF Followed, Waits, Paid
<1>4. ASSUME NEW c \in Calls, NEW j \in Jobs, EnqueueArrives(c, j)
      PROVE  Course'
  <2>1. UNCHANGED <<job, wire, holdStatus>>
    BY <1>4 DEF EnqueueArrives, ledger
  <2>2. ~ Followed(call[c])' /\ \A d \in Calls \ {c} : call'[d] = call[d]
    <3> DEFINE r == [call[c] EXCEPT !.phase = "preflight", !.job = j]
    <3>1. r.phase = "preflight" /\ call' = [call EXCEPT ![c] = r]
      BY <1>2, <1>4 DEF EnqueueArrives, CallRecord
    <3> HIDE DEF r
    <3> QED
      BY <1>2, <3>1 DEF Followed
  <2> QED
    BY <2>1, <2>2, RegistryOnCourse DEF Followed, Waits, Paid
<1>5. ASSUME NEW c \in Calls, EnqueueAnswers(c) \/ CallResumes(c) \/ CancelArrives(c)
      PROVE  Course'
  <2>1. call[c].job \in Jobs
    BY <1>2, <1>5 DEF CallsTyped, EnqueueAnswers, CallResumes, CancelArrives
  <2> QED
    BY <1>5, <2>1, EnqueueOnCourse, ResumesOnCourse, CancelOnCourse
<1>6. ASSUME NEW j \in Jobs, NEW o \in Outcomes,
             \/ SendSettlement(j, o) \/ RegistrySettles(j, o)
             \/ SettlementRejected(j, o) \/ SettlementAnswered(j, o)
      PROVE  Course'
  <2>1. ~ SettlementRejected(j, o)
    BY DEF Heard, SettlementRejected
  <2> QED
    BY <1>6, <2>1, SendOnCourse, SettlesOnCourse, AnsweredOnCourse DEF Heard
<1>7. CASE RegistryUpgrade
  <2>1. UNCHANGED <<job, wire, holdStatus>>
    BY <1>7 DEF RegistryUpgrade, ledger
  <2>2. \A c \in Calls : /\ call'[c].phase = call[c].phase /\ call'[c].job = call[c].job
                         /\ call'[c].skip = call[c].skip
                         /\ call[c].lost => call'[c].lost
    BY <1>2, <1>7 DEF RegistryUpgrade, CallRecord
  <2>3. ASSUME NEW c \in Calls, Followed(call[c])'
        PROVE  /\ Followed(call[c]) /\ call'[c].job = call[c].job
               /\ Waits(call[c])' => Waits(call[c])
               /\ Paid(call[c])' => Paid(call[c])
    BY <2>2, <2>3 DEF Followed, Waits, Paid
  <2> QED
    BY <2>1, <2>3, RegistryOnCourse
<1>8. CASE \/ \E m \in TestModes : Configure(m)
           \/ Billing \/ UNCHANGED vars
  <2>1. UNCHANGED <<job, wire, holdStatus>> /\ UNCHANGED call
    BY <1>8 DEF Configure, Billing, AddUserCredits, DeductUserCredits, CreditCaller, Deposit,
       holds, vars, ledger
  <2> QED
    BY <2>1, RegistryOnCourse DEF Followed, Waits, Paid
<1>9. CASE InstallerWorks
  BY <1>9, WorkOnCourse
<1>10. ~ InstallerUpgrade
  BY DEF InstallerUpgrade, Upgrade, Undisturbed
<1> QED
  BY <1>3, <1>4, <1>5, <1>6, <1>7, <1>8, <1>9, <1>10 DEF DeploymentNext

(* Of a job that was left to run and whose outcome nothing lost, the two   *)
(* canisters agree in the end: it was completed and is paid for, or it     *)
(* failed and its credits are back.  A retry, a second pass or an upgrade  *)
(* takes that away: each lets a job that has reported a failure go on.     *)
THEOREM HoldsAreSettledAsReported ==
    ASSUME Undisturbed, Heard
    PROVE  DeploymentSpec => []SettledAsReported
<1>1. DeploymentInit => CourseInv
  <2> SUFFICES ASSUME DeploymentInit PROVE CourseInv
    OBVIOUS
  <2>1. Fresh
    BY DEF DeploymentInit, Init, None, Fresh, Unborn
  <2>2. \A c \in Calls : ~ Followed(call[c])
    BY DEF DeploymentInit, Followed
  <2>3. Course
    BY <2>2 DEF Course, CallOnCourse, Followed, Waits, Paid
  <2> QED
    BY <2>1, <2>3, SettlementInvInit DEF CourseInv
<1>2. CourseInv /\ [DeploymentNext]_vars => CourseInv'
  BY CourseNext
<1>3. CourseInv => SettledAsReported
  <2> SUFFICES ASSUME CourseInv, NEW c \in Calls, NEW j \in Jobs, j = call[c].job,
                      call[c].phase = "accepted", ~ call[c].skip, Quiet(j)
               PROVE  /\ job[j].status = "completed" => holdStatus[j] = "captured"
                      /\ job[j].status \in Terminal \ {"completed"} => holdStatus[j] = "released"
    BY DEF SettledAsReported, Failures, CourseInv, SettlementInvariant, DeploymentInv, CallsTyped
  <2>1. OnCourse(j) /\ HoldFollows(j) /\ holdStatus[j] \in HoldStatuses \ {"none"}
    BY DEF CourseInv, Course, CallOnCourse, Followed, Paid, SettlementInvariant, DeploymentInv,
       HoldsAreOwned, LedgerInv, LedgerTypeOK
  <2>2. job[j] \in JobRecord /\ wire[j] \in Counters(Outcomes)
    BY DEF CourseInv, SettlementInvariant, DeploymentInv, JobsInv, MessagesTyped
  <2>3. \A o \in Outcomes : ~ job[j].settle[o] > 0 /\ ~ wire[j][o] > 0
    BY <2>2, NothingLeft
  <2>4. job[j].status \in Ended => ~ HasNews(j)
    BY <2>3 DEF HasNews, Due, Outcomes
  <2>5. job[j].status \in Terminal => job[j].status \in Ended
    BY <2>1 DEF OnCourse, Straight, Awaits, Provisions, Bootstraps, Deploys, Abandoned, Registers,
       Terminal
  <2> QED
    BY <2>1, <2>4, <2>5 DEF HoldFollows, HoldStatuses, Ended
<1> QED
  BY <1>1, <1>2, <1>3, PTL DEF DeploymentSpec

----------------------------------------------------------------------------
(***************************************************************************)
(* What is left of the promise when owners and operators intervene: the    *)
(* hold of a job that has ended is settled, and not against how it ended.  *)
(***************************************************************************)

(* The installer waits for the answer to each settlement it has sent.      *)
NewsCounted ==
    \A j \in Jobs, o \in Outcomes : job[j].calling[o] = wire[j][o] + reply[j][o]

(* Wherever the news of a failure has got to, the job failed.              *)
FailureIsEarned ==
    \A j \in Jobs :
        job[j].settle["failed"] > 0 \/ wire[j]["failed"] > 0 \/ holdStatus[j] = "released"
            => j \in everFailed

Over == everCompleted \union everFailed

(* Of a job that has ended a report is armed, under way or answered.       *)
EndIsReported ==
    \A j \in Jobs :
        /\ job[j].status \in Terminal => j \in Over
        /\ j \in Over =>
             /\ job[j].status # "none"
             /\ \/ job[j].notified
                \/ \E o \in Outcomes : job[j].settle[o] > 0 \/ job[j].calling[o] > 0

(* The registry has heard of the job's end, and answered.                  *)
HeardOf(j) == job[j].notified \/ \E o \in Outcomes : reply[j][o] > 0

(* It had the reply of the enqueue before that, and settled the hold.      *)
HeardIsSettled ==
    \A c \in Calls, j \in Jobs : call[c].job = j /\ HeardOf(j) =>
        ~ Waits(call[c]) /\ (Paid(call[c]) => holdStatus[j] # "held")

ReportsInv ==
    SettlementInvariant /\ Fresh /\ NewsCounted /\ FailureIsEarned /\ EndIsReported
    /\ HeardIsSettled

LEMMA HeardKept ==
    ASSUME HeardIsSettled, UNCHANGED holdStatus,
           \A j \in Jobs : HeardOf(j)' => HeardOf(j),
           \A c \in Calls :
             /\ Waits(call'[c]) => Waits(call[c]) /\ call'[c].job = call[c].job
             /\ Paid(call'[c]) => Paid(call[c]) /\ call'[c].job = call[c].job
    PROVE  HeardIsSettled'
BY DEF HeardIsSettled

LEMMA ReportsTyped ==
    ASSUME ReportsInv
    PROVE  /\ job \in [Jobs -> JobRecord] /\ call \in [Calls -> CallRecord] /\ CallsTyped
           /\ wire \in [Jobs -> Counters(Outcomes)] /\ reply \in [Jobs -> Counters(Outcomes)]
           /\ holdStatus \in [Jobs -> HoldStatuses]
BY DEF ReportsInv, SettlementInvariant, DeploymentInv, CallsTyped, JobsInv, LedgerInv,
   LedgerTypeOK, MessagesTyped

----------------------------------------------------------------------------
(* The installer's steps.                                                  *)

LEMMA EnqueueAccounts ==
    ASSUME JobsInv, Unborn, NEW j \in Jobs, Enqueue(j)
    PROVE  StepAccounts
<1>1. job[j] = NoJob
  BY DEF Enqueue, EnqueueRejected, EnqueueCasals, EnqueueOffChain, Unborn
<1>2. \A n : \A s \in {"pending", "provisioning"} :
        GoesOn(NoJob, Enqueued(s)) /\ GoesOn(NoJob, [Enqueued(s) EXCEPT !.kicks = n])
  BY DEF GoesOn, Enqueued, NoJob, Terminal
<1>3. EndsAnew(NoJob, ArmSettlement(Enqueued("failed"), "failed"))
  BY DEF EndsAnew, Enqueued, ArmSettlement, NoJob, Terminal, Due
<1>4. \E r : Becomes(j, r) /\ Accounts(NoJob, r)
  BY <1>2, <1>3 DEF Enqueue, EnqueueRejected, EnqueueCasals, EnqueueOffChain, Accounts
<1> QED
  BY <1>1, <1>4, AccountsByRecord

(* Jobs go on or end, and are remembered; nothing is sent.                 *)
LEMMA EndsAreReported ==
    ASSUME ReportsInv, StepAccounts, Remembered, UNCHANGED <<wire, reply, holdStatus>>,
           Known \subseteq Known'
    PROVE  /\ NewsCounted' /\ FailureIsEarned' /\ EndIsReported'
           /\ \A j \in Jobs : HeardOf(j)' => HeardOf(j)
<1>1. \A j \in Jobs :
        /\ Accounts(job[j], job'[j])
        /\ job'[j].calling = job[j].calling /\ job'[j].notified = job[j].notified
        /\ job[j].settle \in Counters(Outcomes)
  BY ReportsTyped DEF StepAccounts, Accounts, GoesOn, EndsAnew, JobRecord
<1>2. /\ everFailed \subseteq everFailed' /\ Over \subseteq Over'
      /\ \A j \in Jobs : /\ job'[j].status \in Failures => j \in everFailed'
                         /\ j \in Over' <=> j \in Over \/ job'[j].status \in Terminal
  BY DEF Remembered, InStatus, Over, Failures, Terminal
<1>3. \A j \in Jobs : EndsAnew(job[j], job'[j]) =>
        /\ job'[j].status \in Terminal /\ Due(job'[j].status) \in Outcomes
        /\ job'[j].settle[Due(job'[j].status)] > 0
        /\ \A o \in Outcomes : job'[j].settle[o] >= job[j].settle[o]
        /\ job'[j].settle["failed"] > 0 =>
             job[j].settle["failed"] > 0 \/ job'[j].status \in Failures
  BY <1>1 DEF EndsAnew, Due, Outcomes, Counters, Failures, Terminal
<1>4. NewsCounted' /\ \A j \in Jobs : HeardOf(j)' => HeardOf(j)
  BY <1>1 DEF ReportsInv, NewsCounted, HeardOf
<1>5. FailureIsEarned'
  <2> SUFFICES ASSUME NEW j \in Jobs, job'[j].settle["failed"] > 0
               PROVE  j \in everFailed'
    BY <1>2 DEF ReportsInv, FailureIsEarned
  <2>1. CASE GoesOn(job[j], job'[j])
    BY <1>2, <2>1 DEF GoesOn, ReportsInv, FailureIsEarned
  <2>2. CASE EndsAnew(job[j], job'[j])
    BY <1>2, <1>3, <2>2 DEF ReportsInv, FailureIsEarned
  <2> QED
    BY <1>1, <2>1, <2>2 DEF Accounts
<1>6. EndIsReported'
  <2> SUFFICES ASSUME NEW j \in Jobs, j \in Over'
               PROVE  /\ job'[j].status # "none"
                      /\ \/ job'[j].notified
                         \/ \E o \in Outcomes : job'[j].settle[o] > 0 \/ job'[j].calling[o] > 0
    BY <1>2 DEF EndIsReported
  <2>1. CASE EndsAnew(job[j], job'[j])
    BY <1>3, <2>1 DEF Terminal
  <2>2. CASE GoesOn(job[j], job'[j])
    <3>1. j \in Over
      BY <1>2, <2>2 DEF GoesOn, ReportsInv, EndIsReported
    <3>2. job'[j].status # "none"
      BY <3>1 DEF ReportsInv, EndIsReported, Known
    <3> QED
      BY <1>1, <2>2, <3>1, <3>2 DEF GoesOn, ReportsInv, EndIsReported
  <2> QED
    BY <1>1, <2>1, <2>2 DEF Accounts
<1> QED
  BY <1>4, <1>5, <1>6

LEMMA WorkReports ==
    ASSUME ReportsInv, InstallerWorks, Known \subseteq Known'
    PROVE  NewsCounted' /\ FailureIsEarned' /\ EndIsReported' /\ HeardIsSettled'
<1>1. StepAccounts /\ Remembered /\ UNCHANGED <<wire, reply, holdStatus, call>>
  BY InstallerAccounts
  DEF ReportsInv, SettlementInvariant, DeploymentInv, InstallerWorks, InsideInstaller, ledger
<1> QED
  BY <1>1, EndsAreReported, HeardKept DEF ReportsInv

----------------------------------------------------------------------------
(* The registry's calls.                                                   *)

LEMMA EnqueueReports ==
    ASSUME ReportsInv, NEW d \in Calls, EnqueueAnswers(d), Known \subseteq Known'
    PROVE  NewsCounted' /\ FailureIsEarned' /\ EndIsReported' /\ HeardIsSettled'
<1>1. PICK i \in Jobs : i = call[d].job
  BY ReportsTyped DEF EnqueueAnswers, CallsTyped
<1>2. /\ Remembered /\ UNCHANGED <<wire, reply, holdStatus>>
      /\ call[d].phase = "preflight"
  BY DEF EnqueueAnswers, ledger
<1>3. CASE UNCHANGED job /\ call' = [call EXCEPT ![d].phase = "rejected"]
  <2>1. StepAccounts
    BY <1>3 DEF StepAccounts, Accounts, GoesOn
  <2>2. \A c \in Calls : c = d \/ call'[c] = call[c]
    BY <1>3
  <2>3. call'[d].phase = "rejected"
    BY <1>3, ReportsTyped DEF CallRecord
  <2> QED
    BY <1>2, <2>1, <2>2, <2>3, EndsAreReported, HeardKept DEF ReportsInv, Waits, Paid
<1>4. CASE Enqueue(i) /\ call' = [call EXCEPT ![d].phase = "created"]
  <2>1. StepAccounts
    BY <1>4, EnqueueAccounts
    DEF ReportsInv, SettlementInvariant, DeploymentInv, Fresh
  <2>2. NewsCounted' /\ FailureIsEarned' /\ EndIsReported' /\ \A j \in Jobs : HeardOf(j)' => HeardOf(j)
    BY <1>2, <2>1, EndsAreReported
  <2>3. ~ HeardOf(i)
    <3>1. job[i] = NoJob /\ job[i].status = "none"
      BY <1>4 DEF Enqueue, EnqueueRejected, EnqueueCasals, EnqueueOffChain, ReportsInv, Fresh,
         Unborn
    <3>2. \A o \in Outcomes : job[i].calling[o] = 0 /\ ~ job[i].notified
      BY <3>1 DEF NoJob
    <3>3. \A o \in Outcomes : wire[i][o] \in Nat /\ reply[i][o] \in Nat
      BY ReportsTyped DEF Counters
    <3>4. \A o \in Outcomes : reply[i][o] = 0
      BY <3>2, <3>3 DEF ReportsInv, NewsCounted
    <3> QED
      BY <3>1, <3>4 DEF HeardOf, NoJob
  <2>4. \A c \in Calls \ {d} : call'[c] = call[c]
    BY <1>4
  <2>5. call'[d].phase = "created" /\ call'[d].job = i
    BY <1>1, <1>4, ReportsTyped DEF CallRecord
  <2>6. HeardIsSettled'
    BY <1>2, <2>2, <2>3, <2>4, <2>5 DEF ReportsInv, HeardIsSettled
  <2> QED
    BY <2>2, <2>6
<1> QED
  BY <1>1, <1>3, <1>4 DEF EnqueueAnswers

LEMMA CancelReports ==
    ASSUME ReportsInv, NEW d \in Calls, CancelArrives(d), Known \subseteq Known'
    PROVE  NewsCounted' /\ FailureIsEarned' /\ EndIsReported' /\ HeardIsSettled'
<1>1. PICK i \in Jobs : i = call[d].job
  BY ReportsTyped DEF CancelArrives, CallsTyped
<1>2. /\ Remembered /\ UNCHANGED <<wire, reply, holdStatus>>
      /\ call' = [call EXCEPT ![d].phase = "refused"]
  BY DEF CancelArrives, ledger
<1>3. StepAccounts
  <2>1. CASE UNCHANGED job
    BY <2>1 DEF StepAccounts, Accounts, GoesOn
  <2>2. CASE CancelDeployment(i)
    BY <2>2, HandlersAccount, AccountsByRecord
    DEF CancelDeployment, ReportsInv, SettlementInvariant, DeploymentInv, JobsInv
  <2> QED
    BY <1>1, <2>1, <2>2 DEF CancelArrives
<1>4. call'[d].phase = "refused" /\ \A c \in Calls \ {d} : call'[c] = call[c]
  BY <1>2, ReportsTyped DEF CallRecord
<1> QED
  BY <1>2, <1>3, <1>4, EndsAreReported, HeardKept DEF ReportsInv, Waits, Paid

(* A step that changes no job and settles no hold, and has no call wait.   *)
LEMMA CallsReport ==
    ASSUME ReportsInv, UNCHANGED <<job, wire, reply, everCompleted, everFailed, holdStatus>>,
           \A c \in Calls :
             /\ Waits(call'[c]) => Waits(call[c]) /\ call'[c].job = call[c].job
             /\ Paid(call'[c]) => Paid(call[c]) /\ call'[c].job = call[c].job
    PROVE  NewsCounted' /\ FailureIsEarned' /\ EndIsReported' /\ HeardIsSettled'
<1>1. NewsCounted' /\ FailureIsEarned' /\ EndIsReported'
  BY DEF ReportsInv, NewsCounted, FailureIsEarned, EndIsReported, Over
<1>2. \A j \in Jobs : HeardOf(j)' => HeardOf(j)
  BY DEF HeardOf
<1> QED
  BY <1>1, <1>2, HeardKept DEF ReportsInv

(* The call that resumes was waiting for its reply: nothing was heard of   *)
(* the job, whose hold is created now.                                     *)
LEMMA ResumesReports ==
    ASSUME ReportsInv, NEW d \in Calls, CallResumes(d)
    PROVE  NewsCounted' /\ FailureIsEarned' /\ EndIsReported' /\ HeardIsSettled'
<1>1. PICK i \in Jobs : i = call[d].job
  BY ReportsTyped DEF CallResumes, CallsTyped
<1>2. UNCHANGED <<job, wire, reply, everCompleted, everFailed>>
  BY DEF CallResumes
<1>3. /\ call'[d].phase \in {"refused", "accepted", "cancelling"} /\ call'[d].job = i
      /\ call'[d].phase = "accepted" => call[d].phase = "created"
      /\ \A c \in Calls \ {d} : call'[c] = call[c]
  <2>1. PICK p \in {"refused", "accepted", "cancelling"} :
          /\ call' = [call EXCEPT ![d].phase = p]
          /\ p = "accepted" => call[d].phase = "created"
    BY DEF CallResumes
  <2> QED
    BY <1>1, <2>1, ReportsTyped DEF CallRecord
<1>4. /\ UNCHANGED holdStatus \/ (call[d].phase = "created" /\ holdStatus[i] = "none")
      /\ \A j \in Jobs : holdStatus'[j] = holdStatus[j] \/ (j = i /\ holdStatus'[j] = "held")
  BY <1>1, ReportsTyped DEF CallResumes, CreateDeploymentHold, ledger
<1>5. NewsCounted' /\ FailureIsEarned' /\ EndIsReported'
  BY <1>2, <1>4 DEF ReportsInv, NewsCounted, FailureIsEarned, EndIsReported, Over
<1>6. HeardIsSettled'
  <2> SUFFICES ASSUME NEW c \in Calls, NEW j \in Jobs, call'[c].job = j, HeardOf(j)'
               PROVE  ~ Waits(call'[c]) /\ (Paid(call'[c]) => holdStatus'[j] # "held")
    BY DEF HeardIsSettled
  <2>1. HeardOf(j)
    BY <1>2 DEF HeardOf
  <2>2. call[d].phase = "created" => ~ HeardOf(i)
    BY <1>1 DEF CallResumes, Waits, ReportsInv, HeardIsSettled
  <2>3. CASE c = d
    BY <1>3, <2>1, <2>2, <2>3 DEF Waits, Paid
  <2>4. CASE c # d
    <3>1. ~ Waits(call'[c]) /\ (Paid(call'[c]) => holdStatus[j] # "held")
      BY <1>3, <2>1, <2>4 DEF ReportsInv, HeardIsSettled
    <3> QED
      BY <1>4, <2>1, <2>2, <3>1
  <2> QED
    BY <2>3, <2>4
<1> QED
  BY <1>5, <1>6

----------------------------------------------------------------------------
(* The messages.                                                           *)

LEMMA SendReports ==
    ASSUME ReportsInv, NEW i \in Jobs, NEW o \in Outcomes, SendSettlement(i, o)
    PROVE  NewsCounted' /\ FailureIsEarned' /\ EndIsReported' /\ HeardIsSettled'
<1> DEFINE q == job[i]
           s == [q EXCEPT !.settle[o] = @ - 1]
           r == [s EXCEPT !.calling[o] = @ + 1]
<1>1. /\ q \in JobRecord /\ q.settle \in Counters(Outcomes) /\ q.calling \in Counters(Outcomes)
      /\ wire \in [Jobs -> Counters(Outcomes)] /\ q.settle[o] > 0
      /\ UNCHANGED <<reply, call, holdStatus, everCompleted, everFailed>>
  BY ReportsTyped DEF JobRecord, SendSettlement, SettlementFires, ledger
<1>2. /\ s.settle = [q.settle EXCEPT ![o] = @ - 1] /\ s.calling = q.calling
      /\ s.status = q.status /\ s.notified = q.notified
      /\ r.settle = [q.settle EXCEPT ![o] = @ - 1]
      /\ r.calling = [q.calling EXCEPT ![o] = @ + 1]
      /\ r.status = q.status /\ r.notified = q.notified
  BY <1>1 DEF JobRecord
<1>3. \/ s.notified /\ Becomes(i, s)
      \/ Becomes(i, r)
  BY DEF SendSettlement, SettlementFires
<1> HIDE DEF s, r
<1>4. /\ \A j \in Jobs \ {i} : job'[j] = job[j] /\ wire'[j] = wire[j]
      /\ job'[i].status = q.status /\ job'[i].notified = q.notified
      /\ job'[i].settle = [q.settle EXCEPT ![o] = @ - 1]
      /\ \/ /\ q.notified /\ job'[i].calling = q.calling /\ wire'[i] = wire[i]
         \/ /\ job'[i].calling = [q.calling EXCEPT ![o] = @ + 1]
            /\ wire'[i] = [wire[i] EXCEPT ![o] = @ + 1]
  <2>1. CASE s.notified /\ Becomes(i, s)
    <3>1. job' = [job EXCEPT ![i] = s]
      BY <2>1 DEF Becomes
    <3>2. ~ job'[i].calling[o] > job[i].calling[o]
      BY <1>1, <1>2, <3>1, ReportsTyped DEF Counters
    <3>3. wire' = [wire EXCEPT ![i] = [wire[i] EXCEPT ![o] = wire[i][o]]]
      BY <3>2 DEF SendSettlement
    <3>4. [wire[i] EXCEPT ![o] = wire[i][o]] = wire[i]
      BY <1>1 DEF Counters
    <3> QED
      BY <1>1, <1>2, <2>1, <3>1, <3>3, <3>4, ReportsTyped
  <2>2. CASE Becomes(i, r)
    <3>1. job' = [job EXCEPT ![i] = r]
      BY <2>2 DEF Becomes
    <3>2. job'[i].calling[o] > job[i].calling[o]
      BY <1>1, <1>2, <3>1, ReportsTyped DEF Counters
    <3>3. wire' = [wire EXCEPT ![i][o] = @ + 1]
      BY <3>2 DEF SendSettlement
    <3> QED
      BY <1>1, <1>2, <3>1, <3>3, ReportsTyped
  <2> QED
    BY <1>3, <2>1, <2>2
<1>5. NewsCounted'
  <2> SUFFICES ASSUME NEW j \in Jobs, NEW x \in Outcomes
               PROVE  job'[j].calling[x] = wire'[j][x] + reply'[j][x]
    BY DEF NewsCounted
  <2>1. job[j].calling[x] = wire[j][x] + reply[j][x] /\ reply' = reply
    BY <1>1 DEF ReportsInv, NewsCounted
  <2>2. CASE j # i
    BY <1>4, <2>1, <2>2
  <2>3. CASE j = i
    <3>1. wire[i] \in [Outcomes -> Nat] /\ reply[i] \in [Outcomes -> Nat]
          /\ q.calling \in [Outcomes -> Nat]
      BY <1>1, ReportsTyped DEF Counters
    <3>2. \/ job'[i].calling[x] = q.calling[x] /\ wire'[i][x] = wire[i][x]
          \/ job'[i].calling[x] = q.calling[x] + 1 /\ wire'[i][x] = wire[i][x] + 1
      <4>1. CASE job'[i].calling = q.calling /\ wire'[i] = wire[i]
        BY <4>1
      <4>2. CASE /\ job'[i].calling = [q.calling EXCEPT ![o] = @ + 1]
                 /\ wire'[i] = [wire[i] EXCEPT ![o] = @ + 1]
        BY <3>1, <4>2
      <4> QED
        BY <1>4, <4>1, <4>2
    <3>3. q.calling[x] \in Nat /\ wire[i][x] \in Nat /\ reply[i][x] \in Nat
      BY <3>1
    <3> QED
      BY <2>1, <2>3, <3>2, <3>3
  <2> QED
    BY <2>2, <2>3
<1>6. FailureIsEarned'
  BY <1>1, <1>4 DEF ReportsInv, FailureIsEarned, Counters, Outcomes
<1>7. EndIsReported'
  <2>1. q.notified => job'[i].notified
    BY <1>4
  <2>2. q.notified \/ job'[i].calling[o] > 0
    BY <1>1, <1>4 DEF Counters
  <2>3. Over' = Over
    BY <1>1 DEF Over
  <2> QED
    BY <1>4, <2>1, <2>2, <2>3 DEF ReportsInv, EndIsReported
<1>8. HeardIsSettled'
  <2>1. \A j \in Jobs : HeardOf(j)' => HeardOf(j)
    BY <1>1, <1>4 DEF HeardOf
  <2> QED
    BY <1>1, <2>1, HeardKept DEF ReportsInv
<1> QED
  BY <1>5, <1>6, <1>7, <1>8

(* The news arrives, with no call waiting for its reply.                   *)
LEMMA SettlesReports ==
    ASSUME ReplyFirst, ReportsInv, NEW i \in Jobs, NEW o \in Outcomes, RegistrySettles(i, o)
    PROVE  NewsCounted' /\ FailureIsEarned' /\ EndIsReported' /\ HeardIsSettled'
<1>1. /\ wire[i][o] > 0 /\ wire' = [wire EXCEPT ![i][o] = @ - 1] /\ Answer(i, o)
      /\ UNCHANGED <<job, call, everCompleted, everFailed>>
      /\ \A c \in Calls : call[c].job = i => ~ Waits(call[c])
  BY DEF RegistrySettles, MayBeDelivered, Waits
<1>2. /\ \A j \in Jobs, x \in Outcomes :
           wire[j][x] \in Nat /\ reply[j][x] \in Nat /\ job[j].calling[x] = wire[j][x] + reply[j][x]
      /\ wire \in [Jobs -> Counters(Outcomes)] /\ reply \in [Jobs -> Counters(Outcomes)]
  BY ReportsTyped DEF Counters, ReportsInv, NewsCounted
<1>3. reply' = [reply EXCEPT ![i][o] = @ + 1]
  <2>1. reply[i][o] < job[i].calling[o]
    BY <1>1, <1>2
  <2> QED
    BY <1>1, <2>1 DEF Answer
<1>4. /\ \A j \in Jobs \ {i} : holdStatus'[j] = holdStatus[j]
      /\ holdStatus'[i] # "held"
      /\ holdStatus'[i] = "released" => holdStatus[i] = "released" \/ o = "failed"
  BY ReportsTyped DEF RegistrySettles, CaptureDeploymentHold, ReleaseDeploymentHold, ledger
<1>5. NewsCounted'
  <2> SUFFICES ASSUME NEW j \in Jobs, NEW x \in Outcomes
               PROVE  job[j].calling[x] = wire'[j][x] + reply'[j][x]
    BY <1>1 DEF NewsCounted
  <2>1. CASE j = i /\ x = o
    <3>1. wire'[j][x] = wire[j][x] - 1 /\ reply'[j][x] = reply[j][x] + 1
      BY <1>1, <1>2, <1>3, <2>1 DEF Counters
    <3>2. /\ wire[j][x] \in Nat /\ reply[j][x] \in Nat
          /\ job[j].calling[x] = wire[j][x] + reply[j][x]
      BY <1>2
    <3>3. \A a, b \in Nat : a + b = (a - 1) + (b + 1)
      OBVIOUS
    <3> QED
      BY <3>1, <3>2, <3>3
  <2>2. CASE ~ (j = i /\ x = o)
    <3>1. wire'[j][x] = wire[j][x] /\ reply'[j][x] = reply[j][x]
      <4>1. CASE j # i
        BY <1>1, <1>2, <1>3, <4>1
      <4>2. CASE j = i /\ x # o
        <5>1. wire[i] \in [Outcomes -> Nat] /\ reply[i] \in [Outcomes -> Nat]
          BY <1>2 DEF Counters
        <5>2. /\ wire'[i] = [wire[i] EXCEPT ![o] = @ - 1]
              /\ reply'[i] = [reply[i] EXCEPT ![o] = @ + 1]
          BY <1>1, <1>2, <1>3
        <5> QED
          BY <4>2, <5>1, <5>2
      <4> QED
        BY <2>2, <4>1, <4>2
    <3> QED
      BY <1>2, <3>1
  <2> QED
    BY <2>1, <2>2
<1>6. FailureIsEarned'
  BY <1>1, <1>2, <1>4 DEF ReportsInv, FailureIsEarned, Counters, Outcomes
<1>7. EndIsReported'
  BY <1>1 DEF ReportsInv, EndIsReported, Over
<1>8. HeardIsSettled'
  <2>1. \A j \in Jobs \ {i} : HeardOf(j)' => HeardOf(j)
    BY <1>1, <1>3 DEF HeardOf
  <2> QED
    BY <1>1, <1>4, <2>1 DEF ReportsInv, HeardIsSettled
<1> QED
  BY <1>5, <1>6, <1>7, <1>8

LEMMA AnsweredReports ==
    ASSUME ReportsInv, NEW i \in Jobs, NEW o \in Outcomes, SettlementAnswered(i, o)
    PROVE  NewsCounted' /\ FailureIsEarned' /\ EndIsReported' /\ HeardIsSettled'
<1> DEFINE q == job[i]
           r == [q EXCEPT !.calling[o] = @ - 1, !.notified = TRUE]
<1>1. /\ q \in JobRecord /\ q.calling \in Counters(Outcomes) /\ q.calling[o] > 0
      /\ reply[i][o] > 0 /\ reply' = [reply EXCEPT ![i][o] = @ - 1]
      /\ reply \in [Jobs -> Counters(Outcomes)] /\ job' = [job EXCEPT ![i] = r]
      /\ UNCHANGED <<wire, call, holdStatus, everCompleted, everFailed>>
  BY ReportsTyped DEF JobRecord, SettlementAnswered, SettlementReturns, Becomes, ledger
<1>2. /\ r.calling = [q.calling EXCEPT ![o] = @ - 1] /\ r.settle = q.settle
      /\ r.status = q.status /\ r.notified
  BY <1>1 DEF JobRecord
<1> HIDE DEF r
<1>3. /\ job'[i] = r /\ \A j \in Jobs \ {i} : job'[j] = job[j] /\ reply'[j] = reply[j]
      /\ reply'[i] = [reply[i] EXCEPT ![o] = @ - 1]
  BY <1>1, ReportsTyped
<1>4. NewsCounted'
  <2>1. \A j \in Jobs, x \in Outcomes : wire[j][x] \in Nat /\ reply[j][x] \in Nat
    BY ReportsTyped DEF Counters
  <2> QED
    BY <1>1, <1>2, <1>3, <2>1 DEF ReportsInv, NewsCounted, Counters
<1>5. FailureIsEarned'
  BY <1>1, <1>2, <1>3 DEF ReportsInv, FailureIsEarned
<1>6. EndIsReported'
  BY <1>1, <1>2, <1>3 DEF ReportsInv, EndIsReported, Over
<1>7. HeardIsSettled'
  <2>1. HeardOf(i) /\ \A j \in Jobs \ {i} : HeardOf(j)' => HeardOf(j)
    BY <1>1, <1>3 DEF HeardOf
  <2> QED
    BY <1>1, <2>1, HeardKept DEF ReportsInv
<1> QED
  BY <1>4, <1>5, <1>6, <1>7

(* An upgrade of the installer drops the reports that are armed, and a     *)
(* settlement that is rejected is not repeated: in both cases the news of  *)
(* an end is lost.                                                         *)
Delivered == Heard /\ "upgrade" \notin Faults

LEMMA ReportsNext ==
    ASSUME Delivered
    PROVE  ReportsInv /\ [DeploymentNext]_vars => ReportsInv'
<1> SUFFICES ASSUME ReportsInv, [DeploymentNext]_vars PROVE ReportsInv'
  OBVIOUS
<1>1. SettlementInvariant' /\ Fresh' /\ Known \subseteq Known'
  BY SettlementInvNext, FreshNext, StepKeepsJobs
  DEF ReportsInv, SettlementInvariant, DeploymentInv
<1> SUFFICES NewsCounted' /\ FailureIsEarned' /\ EndIsReported' /\ HeardIsSettled'
  BY <1>1 DEF ReportsInv
<1>2. call \in [Calls -> CallRecord]
  BY ReportsTyped
<1>3. ASSUME NEW d \in Calls, NEW u \in Users, RequestDeployment(d, u)
      PROVE  NewsCounted' /\ FailureIsEarned' /\ EndIsReported' /\ HeardIsSettled'
  <2>1. /\ UNCHANGED <<job, wire, reply, everCompleted, everFailed, holdStatus>>
        /\ \A c \in Calls \ {d} : call'[c] = call[c]
    BY <1>3 DEF RequestDeployment, ledger
  <2>2. call'[d].phase = "enqueueing"
    BY <1>2, <1>3 DEF RequestDeployment, CallRecord
  <2> QED
    BY <2>1, <2>2, CallsReport DEF Waits, Paid
<1>4. ASSUME NEW d \in Calls, NEW j \in Jobs, EnqueueArrives(d, j)
      PROVE  NewsCounted' /\ FailureIsEarned' /\ EndIsReported' /\ HeardIsSettled'
  <2> DEFINE r == [call[d] EXCEPT !.phase = "preflight", !.job = j]
  <2>1. UNCHANGED <<job, wire, reply, everCompleted, everFailed, holdStatus>>
    BY <1>4 DEF EnqueueArrives, ledger
  <2>2. call' = [call EXCEPT ![d] = r] /\ r.phase = "preflight"
    BY <1>2, <1>4 DEF EnqueueArrives, CallRecord
  <2> HIDE DEF r
  <2>3. call'[d].phase = "preflight" /\ \A c \in Calls \ {d} : call'[c] = call[c]
    BY <1>2, <2>2
  <2> QED
    BY <2>1, <2>3, CallsReport DEF Waits, Paid
<1>5. ASSUME NEW d \in Calls, EnqueueAnswers(d) \/ CallResumes(d) \/ CancelArrives(d)
      PROVE  NewsCounted' /\ FailureIsEarned' /\ EndIsReported' /\ HeardIsSettled'
  BY <1>1, <1>5, EnqueueReports, ResumesReports, CancelReports
<1>6. ASSUME NEW j \in Jobs, NEW o \in Outcomes,
             \/ SendSettlement(j, o) \/ RegistrySettles(j, o)
             \/ SettlementRejected(j, o) \/ SettlementAnswered(j, o)
      PROVE  NewsCounted' /\ FailureIsEarned' /\ EndIsReported' /\ HeardIsSettled'
  <2>1. ReplyFirst /\ ~ SettlementRejected(j, o)
    BY DEF Delivered, Heard, SettlementRejected
  <2> QED
    BY <1>6, <2>1, SendReports, SettlesReports, AnsweredReports
<1>7. CASE RegistryUpgrade
  <2>1. UNCHANGED <<job, wire, reply, everCompleted, everFailed, holdStatus>>
    BY <1>7 DEF RegistryUpgrade, ledger
  <2>2. \A c \in Calls : /\ call'[c].phase = call[c].phase /\ call'[c].job = call[c].job
                         /\ call'[c].skip = call[c].skip
                         /\ call[c].lost => call'[c].lost
    BY <1>2, <1>7 DEF RegistryUpgrade, CallRecord
  <2> QED
    BY <2>1, <2>2, CallsReport DEF Waits, Paid
<1>8. CASE \/ \E m \in TestModes : Configure(m)
           \/ Billing \/ UNCHANGED vars
  <2>1. UNCHANGED <<job, wire, reply, everCompleted, everFailed, holdStatus, call>>
    BY <1>8 DEF Configure, Billing, AddUserCredits, DeductUserCredits, CreditCaller, Deposit,
       holds, vars, ledger
  <2> QED
    BY <2>1, CallsReport
<1>9. CASE InstallerWorks
  BY <1>1, <1>9, WorkReports
<1>10. ~ InstallerUpgrade
  BY DEF InstallerUpgrade, Upgrade, Delivered
<1> QED
  BY <1>3, <1>4, <1>5, <1>6, <1>7, <1>8, <1>9, <1>10 DEF DeploymentNext

(* Whatever owners, controllers and the heartbeat do to a job meanwhile,   *)
(* and however it fails, once no news of it is left the hold of a job that *)
(* has ended is settled: captured if it was only ever completed, released  *)
(* if it only ever failed or was cancelled.                                *)
THEOREM HoldsAreSettledAsEnded ==
    ASSUME Delivered
    PROVE  DeploymentSpec => []SettledAsItEnded
<1>1. DeploymentInit => ReportsInv
  <2> SUFFICES ASSUME DeploymentInit PROVE ReportsInv
    OBVIOUS
  <2>1. Fresh
    BY DEF DeploymentInit, Init, None, Fresh, Unborn
  <2>2. NewsCounted /\ FailureIsEarned
    BY DEF DeploymentInit, LedgerInit, Init, NoJob, None, NewsCounted, FailureIsEarned, Outcomes
  <2>3. EndIsReported
    BY DEF DeploymentInit, Init, NoJob, EndIsReported, Over, Terminal
  <2>4. HeardIsSettled
    BY DEF DeploymentInit, HeardIsSettled, Waits, Paid
  <2> QED
    BY <2>1, <2>2, <2>3, <2>4, SettlementInvInit DEF ReportsInv
<1>2. ReportsInv /\ [DeploymentNext]_vars => ReportsInv'
  BY ReportsNext
<1>3. ReportsInv => SettledAsItEnded
  <2> SUFFICES ASSUME ReportsInv, NEW c \in Calls, NEW j \in Jobs, j = call[c].job,
                      call[c].phase = "accepted", ~ call[c].skip, Quiet(j)
               PROVE  /\ j \in Over => holdStatus[j] # "held"
                      /\ j \in everCompleted \ everFailed => holdStatus[j] = "captured"
                      /\ j \in everFailed \ everCompleted => holdStatus[j] = "released"
    BY ReportsTyped DEF SettledAsItEnded, CallsTyped, Over
  <2>1. \A o \in Outcomes : ~ job[j].settle[o] > 0 /\ ~ job[j].calling[o] > 0
    BY NothingLeft, ReportsTyped
  <2>2. j \in Over => holdStatus[j] # "held"
    BY <2>1 DEF ReportsInv, EndIsReported, HeardIsSettled, HeardOf, Paid
  <2>3. holdStatus[j] \in HoldStatuses \ {"none"}
    BY ReportsTyped DEF ReportsInv, SettlementInvariant, DeploymentInv, HoldsAreOwned
  <2> QED
    BY <2>2, <2>3 DEF ReportsInv, FailureIsEarned, SettlementInvariant, SuccessIsEarned, Over,
       HoldStatuses
<1> QED
  BY <1>1, <1>2, <1>3, PTL DEF DeploymentSpec
=============================================================================
