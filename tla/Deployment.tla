----------------------------- MODULE Deployment -----------------------------
(***************************************************************************)
(* Paying for a deployment: the registry's request_deployment and          *)
(* request_upgrade, the installer's jobs and the settlement messages that  *)
(* connect a job to its credit hold.                                       *)
(*                                                                         *)
(* The registry keeps the ledger and suspends its call while the installer *)
(* creates the job; the installer reports the outcome of the job later,    *)
(* from a timer, in a call of its own.  Requests and replies travel        *)
(* between the two canisters and may be overtaken by one another.          *)
(***************************************************************************)
EXTENDS Credits, InstallerJobs

CONSTANTS
    Calls,          \* calls of request_deployment and request_upgrade
    NoId,           \* the job of a call that has none yet
    TestModes,      \* values that configure gives to can_test_mode
    ReplyFirst,     \* a reply is not overtaken by a later settlement message
    Losses          \* which messages and calls between the canisters are lost

AllLosses == {"settlement_rejected", "registry_upgrade", "enqueue_refused"}

ASSUME DeploymentAssumption ==
    /\ NoId \notin Jobs
    /\ TestModes \subseteq BOOLEAN
    /\ ReplyFirst \in BOOLEAN
    /\ Losses \subseteq AllLosses

VARIABLES
    canTestMode,    \* the registry's can_test_mode
    call,           \* the registry's calls, suspended or done
    wire,           \* settlement messages on their way to the registry
    reply,          \* answers to them on their way back
    everCompleted,  \* history: the jobs that were ever completed
    everFailed      \* history: the jobs that ever failed or were cancelled

vars == <<ledger, job, canTestMode, call, wire, reply, everCompleted, everFailed>>

CallPhases == {"idle", "enqueueing", "preflight", "created", "rejected",
               "cancelling", "accepted", "refused"}

CallRecord ==
    [phase : CallPhases,
     user  : Users \union {NoUser},
     skip  : BOOLEAN,               \* skip_credits, read before the await
     job   : Jobs \union {NoId},
     lost  : BOOLEAN]               \* the registry forgot the suspended call

DeploymentTypeOK ==
    /\ LedgerTypeOK
    /\ TypeOK
    /\ canTestMode \in BOOLEAN
    /\ call \in [Calls -> CallRecord]
    /\ wire \in [Jobs -> Counters(Outcomes)]
    /\ reply \in [Jobs -> Counters(Outcomes)]
    /\ everCompleted \subseteq Jobs
    /\ everFailed \subseteq Jobs

None == [j \in Jobs |-> [o \in Outcomes |-> 0]]

DeploymentInit ==
    /\ LedgerInit
    /\ Init
    /\ canTestMode \in TestModes
    /\ call = [c \in Calls |-> [phase |-> "idle", user |-> NoUser, skip |-> FALSE,
                                job |-> NoId, lost |-> FALSE]]
    /\ wire = None
    /\ reply = None
    /\ everCompleted = {}
    /\ everFailed = {}

InStatus(statuses) == {j \in Jobs : job[j].status \in statuses}
Failures == Terminal \ {"completed"}
Remembered == /\ everCompleted' = everCompleted \union InStatus({"completed"})'
              /\ everFailed' = everFailed \union InStatus(Failures)'

----------------------------------------------------------------------------
(* The registry, up to its await: the balance is only looked at.           *)

(* Mutant of RequestDeployment: the cost is taken before the await too.    *)
RequestTakesCredits(c, u) ==
    /\ call[c].phase = "idle"
    /\ balance[u] >= Cost
    /\ balance' = [balance EXCEPT ![u] = @ - Cost]
    /\ call' = [call EXCEPT ![c] = [@ EXCEPT !.phase = "enqueueing", !.user = u]]
    /\ UNCHANGED <<purchased, spent, holds, job, canTestMode, wire, reply, everCompleted, everFailed>>

RequestDeployment(c, u) ==
    /\ call[c].phase = "idle"
    /\ canTestMode \/ balance[u] >= Cost
    /\ call' = [call EXCEPT ![c] = [@ EXCEPT !.phase = "enqueueing", !.user = u,
                                            !.skip = canTestMode]]
    /\ UNCHANGED <<ledger, job, canTestMode, wire, reply, everCompleted, everFailed>>

(* The installer derives the job's id from the second, the requester and   *)
(* the realm's name, so two requests may get the same id.                  *)
EnqueueArrives(c, j) ==
    /\ call[c].phase = "enqueueing"
    /\ call' = [call EXCEPT ![c].phase = "preflight", ![c].job = j]
    /\ UNCHANGED <<ledger, job, canTestMode, wire, reply, everCompleted, everFailed>>

(* Mutant of EnqueueAnswers: an id that is taken is answered with its job. *)
EnqueueAnswersTakenId(c) ==
    /\ call[c].phase = "preflight"
    /\ Enqueue(call[c].job) \/ (job[call[c].job].status # "none" /\ UNCHANGED job)
    /\ call' = [call EXCEPT ![c].phase = "created"]
    /\ Remembered
    /\ UNCHANGED <<ledger, canTestMode, wire, reply>>

(* The preflight has answered.  A job with this id may exist by now.  A    *)
(* failed preflight creates a failed job and answers with its id.          *)
EnqueueAnswers(c) ==
    /\ call[c].phase = "preflight"
    /\ LET j == call[c].job IN
       \/ /\ Enqueue(j)
          /\ call' = [call EXCEPT ![c].phase = "created"]
       \/ /\ job[j].status # "none" \/ "enqueue_refused" \in Losses
          /\ call' = [call EXCEPT ![c].phase = "rejected"]
          /\ UNCHANGED job
    /\ Remembered
    /\ UNCHANGED <<ledger, canTestMode, wire, reply>>

(* The registry after the await: the hold is created now, or the job is    *)
(* cancelled when the credits are gone.                                    *)
CallResumes(c) ==
    /\ ~ call[c].lost
    /\ \/ /\ call[c].phase = "rejected"
          /\ call' = [call EXCEPT ![c].phase = "refused"]
          /\ UNCHANGED ledger
       \/ /\ call[c].phase = "created"
          /\ call[c].skip
          /\ call' = [call EXCEPT ![c].phase = "accepted"]
          /\ UNCHANGED ledger
       \/ /\ call[c].phase = "created"
          /\ ~ call[c].skip
          /\ HoldGranted(call[c].user, call[c].job)
          /\ call' = [call EXCEPT ![c].phase = "accepted"]
          /\ IF holdStatus[call[c].job] = "none"
             THEN CreateDeploymentHold(call[c].user, call[c].job)
             ELSE UNCHANGED ledger
       \/ /\ call[c].phase = "created"
          /\ ~ call[c].skip
          /\ ~ HoldGranted(call[c].user, call[c].job)
          /\ call' = [call EXCEPT ![c].phase = "cancelling"]
          /\ UNCHANGED ledger
    /\ UNCHANGED <<job, canTestMode, wire, reply, everCompleted, everFailed>>

(* Mutant of CancelArrives: the job is cancelled in whatever phase it is.  *)
CancelArrivesLate(c) ==
    /\ call[c].phase = "cancelling"
    /\ job' = [job EXCEPT ![call[c].job].status = "cancelled"]
    /\ call' = [call EXCEPT ![c].phase = "refused"]
    /\ Remembered
    /\ UNCHANGED <<ledger, canTestMode, wire, reply>>

(* cancel_deployment reaches the installer; the registry ignores the       *)
(* answer, so a job that is past provisioning goes on without a hold.      *)
CancelArrives(c) ==
    /\ call[c].phase = "cancelling"
    /\ \/ CancelDeployment(call[c].job)
       \/ ~ Kickable(job[call[c].job]) /\ UNCHANGED job
    /\ call' = [call EXCEPT ![c].phase = "refused"]
    /\ Remembered
    /\ UNCHANGED <<ledger, canTestMode, wire, reply>>

(* An upgrade of the registry forgets the calls it has suspended.          *)
RegistryUpgrade ==
    /\ "registry_upgrade" \in Losses
    /\ call' = [c \in Calls |-> [call[c] EXCEPT
                  !.lost = @ \/ call[c].phase \notin {"idle", "accepted", "refused"}]]
    /\ UNCHANGED <<ledger, job, canTestMode, wire, reply, everCompleted, everFailed>>

Configure(m) ==
    /\ canTestMode' = m
    /\ UNCHANGED <<ledger, job, call, wire, reply, everCompleted, everFailed>>

----------------------------------------------------------------------------
(* Settlement.                                                             *)

SendSettlement(j, o) ==
    /\ SettlementFires(j, o)
    /\ wire' = [wire EXCEPT ![j][o] =
                  IF job'[j].calling[o] > job[j].calling[o] THEN @ + 1 ELSE @]
    /\ wire'[j][o] <= MaxSettle
    /\ UNCHANGED <<ledger, canTestMode, call, reply, everCompleted, everFailed>>

MayBeDelivered(j) ==
    \/ ~ ReplyFirst
    \/ \A c \in Calls : call[c].job = j => call[c].phase # "created" \/ call[c].lost

(* An answer returns to the callback that waits for it, if an upgrade has  *)
(* not removed it.                                                         *)
Answer(j, o) ==
    reply' = [reply EXCEPT ![j][o] = IF @ < job[j].calling[o] THEN @ + 1 ELSE @]

(* Mutants of RegistrySettles: the outcomes are swapped, or a failure does *)
(* not release the hold.                                                   *)
SettlesSwapped(j, o) ==
    /\ wire[j][o] > 0
    /\ MayBeDelivered(j)
    /\ wire' = [wire EXCEPT ![j][o] = @ - 1]
    /\ Answer(j, o)
    /\ \/ holdStatus[j] # "held" /\ UNCHANGED ledger
       \/ o = "failed" /\ CaptureDeploymentHold(j)
       \/ o = "succeeded" /\ ReleaseDeploymentHold(j)
    /\ UNCHANGED <<job, canTestMode, call, everCompleted, everFailed>>

SettlesOnlySuccess(j, o) ==
    /\ wire[j][o] > 0
    /\ MayBeDelivered(j)
    /\ wire' = [wire EXCEPT ![j][o] = @ - 1]
    /\ Answer(j, o)
    /\ \/ (holdStatus[j] # "held" \/ o = "failed") /\ UNCHANGED ledger
       \/ o = "succeeded" /\ CaptureDeploymentHold(j)
    /\ UNCHANGED <<job, canTestMode, call, everCompleted, everFailed>>

(* deployment_succeeded and deployment_failed.  A hold that is missing or  *)
(* already settled makes the answer an error, which nobody reads.          *)
RegistrySettles(j, o) ==
    /\ wire[j][o] > 0
    /\ MayBeDelivered(j)
    /\ wire' = [wire EXCEPT ![j][o] = @ - 1]
    /\ Answer(j, o)
    /\ \/ holdStatus[j] # "held" /\ UNCHANGED ledger
       \/ o = "succeeded" /\ CaptureDeploymentHold(j)
       \/ o = "failed" /\ ReleaseDeploymentHold(j)
    /\ UNCHANGED <<job, canTestMode, call, everCompleted, everFailed>>

(* The call is rejected on its way (the registry is stopped, or its queue  *)
(* is full): the callback gets an error value, not an exception.           *)
SettlementRejected(j, o) ==
    /\ "settlement_rejected" \in Losses
    /\ wire[j][o] > 0
    /\ wire' = [wire EXCEPT ![j][o] = @ - 1]
    /\ Answer(j, o)
    /\ UNCHANGED <<ledger, job, canTestMode, call, everCompleted, everFailed>>

(* Mutant of SettlementAnswered: the callback does not wait for an answer. *)
SettlementUnanswered(j, o) ==
    /\ reply' = [reply EXCEPT ![j][o] = @ - 1]
    /\ SettlementReturns(j, o)
    /\ UNCHANGED <<ledger, canTestMode, call, wire, everCompleted, everFailed>>

SettlementAnswered(j, o) ==
    /\ reply[j][o] > 0
    /\ reply' = [reply EXCEPT ![j][o] = @ - 1]
    /\ SettlementReturns(j, o)
    /\ UNCHANGED <<ledger, canTestMode, call, wire, everCompleted, everFailed>>

----------------------------------------------------------------------------
(* The components' own steps.                                              *)

Billing ==
    /\ \/ \E u \in Users, a \in TopUps : AddUserCredits(u, a) \/ DeductUserCredits(u, a)
       \/ \E u \in Users, a \in Gifts : CreditCaller(u, a)
    /\ UNCHANGED <<job, canTestMode, call, wire, reply, everCompleted, everFailed>>

(* What a step inside the installer does to the rest.                      *)
InsideInstaller ==
    /\ Remembered
    /\ UNCHANGED <<ledger, canTestMode, call, wire, reply>>

InstallerWorks ==
    /\ \/ \E j \in Jobs : JobStep(j)
       \/ Heartbeat
    /\ InsideInstaller

InstallerUpgrade ==
    /\ Upgrade
    /\ reply' = None
    /\ UNCHANGED <<ledger, canTestMode, call, wire, everCompleted, everFailed>>

DeploymentNext ==
    \/ \E c \in Calls, u \in Users : RequestDeployment(c, u)
    \/ \E c \in Calls, j \in Jobs : EnqueueArrives(c, j)
    \/ \E c \in Calls : EnqueueAnswers(c) \/ CallResumes(c) \/ CancelArrives(c)
    \/ \E j \in Jobs, o \in Outcomes :
         \/ SendSettlement(j, o) \/ RegistrySettles(j, o)
         \/ SettlementRejected(j, o) \/ SettlementAnswered(j, o)
    \/ \E m \in TestModes : Configure(m)
    \/ RegistryUpgrade
    \/ Billing
    \/ InstallerWorks
    \/ InstallerUpgrade

DeploymentSpec == DeploymentInit /\ [][DeploymentNext]_vars

----------------------------------------------------------------------------
(* Safety.                                                                 *)

(* Outside test mode, a call answered with success has paid: its job has a *)
(* hold in the caller's name, and no other accepted call shares it.        *)
AcceptedCallHasPaid ==
    \A c \in Calls : call[c].phase = "accepted" =>
        /\ job[call[c].job].status # "none"
        /\ ~ call[c].skip => holder[call[c].job] = call[c].user
        /\ \A d \in Calls \ {c} : call[d].phase = "accepted" => call[d].job # call[c].job

(* Credits are spent on a deployment only if its job was completed.        *)
CapturedOnlyIfCompleted ==
    \A j \in Jobs : holdStatus[j] = "captured" => j \in everCompleted

(* Nothing about the settlement of j is on its way any more.               *)
Quiet(j) ==
    \A o \in Outcomes : job[j].settle[o] + job[j].calling[o] + wire[j][o] = 0

(* When the dust has settled, the hold of a job that has ended is settled, *)
(* and as the job ended: paid for if it was only ever completed, paid back *)
(* if it only ever failed or was cancelled, whatever it may do from then   *)
(* on.  Where it ended twice, differently, the first report decides.       *)
SettledAsItEnded ==
    \A c \in Calls :
        LET j == call[c].job IN
        call[c].phase = "accepted" /\ ~ call[c].skip /\ Quiet(j) =>
            /\ j \in everCompleted \union everFailed => holdStatus[j] # "held"
            /\ j \in everCompleted \ everFailed => holdStatus[j] = "captured"
            /\ j \in everFailed \ everCompleted => holdStatus[j] = "released"

(* More than that, the two canisters agree: a job that is completed now    *)
(* has been paid for, and one that is failed or cancelled has been paid    *)
(* back.                                                                   *)
SettledAsReported ==
    \A c \in Calls :
        LET j == call[c].job IN
        call[c].phase = "accepted" /\ ~ call[c].skip /\ Quiet(j) =>
            /\ job[j].status = "completed" => holdStatus[j] = "captured"
            /\ job[j].status \in Failures => holdStatus[j] = "released"

----------------------------------------------------------------------------
(* Liveness.                                                               *)

DeploymentFairness ==
    /\ WF_vars(Heartbeat /\ InsideInstaller)
    /\ \A c \in Calls :
         /\ WF_vars(\E j \in Jobs : EnqueueArrives(c, j))
         /\ WF_vars(EnqueueAnswers(c) \/ CallResumes(c) \/ CancelArrives(c))
    /\ \A j \in Jobs :
         /\ WF_vars(Kick(j) /\ InsideInstaller)
         /\ WF_vars(PassDeclares(j) /\ InsideInstaller)
         /\ WF_vars((PassFindsBroken(j) \/ PassFindsBuilt(j)) /\ InsideInstaller)
         /\ WF_vars(PassWaits(j) /\ InsideInstaller)
         /\ WF_vars(PassBuildsTask(j) /\ InsideInstaller)
         /\ WF_vars(ConductorBuilds(j) /\ InsideInstaller)
         /\ WF_vars(LockGoesStale(j) /\ InsideInstaller)
         /\ WF_vars(RunnerStarts(j) /\ InsideInstaller)
         /\ SF_vars(RunnerFinishes(j) /\ InsideInstaller)
         /\ WF_vars(Registration(j) /\ InsideInstaller)
         /\ WF_vars(ReportResumes(j) /\ InsideInstaller)
         /\ \A o \in Outcomes :
              /\ WF_vars(SendSettlement(j, o))
              /\ WF_vars(RegistrySettles(j, o) \/ SettlementRejected(j, o))
              /\ WF_vars(SettlementAnswered(j, o))

FairDeploymentSpec == DeploymentSpec /\ DeploymentFairness

(* The hold of an accepted call is eventually captured or released, and    *)
(* the user's credits do not stay blocked for ever, unless the build of    *)
(* the stand stops again and again.                                        *)
HoldIsSettled ==
    \A c \in Calls, j \in Jobs :
        \/ []<> BuildStopped(j)
        \/ call[c].phase = "accepted" /\ ~ call[c].skip /\ call[c].job = j
              ~> holdStatus[j] \in {"captured", "released"}
=============================================================================
