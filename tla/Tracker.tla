------------------------------ MODULE Tracker ------------------------------
(***************************************************************************)
(* The page that follows one deployment (my-dashboard/deployments,         *)
(* deployment-tracker.js, deployment-stage-timing.js).                     *)
(*                                                                         *)
(* The page loads the job and then polls it every five seconds.  A poll is *)
(* two queries with an await each; nothing keeps a later poll from being   *)
(* answered first, and nothing takes a poll back when its page is left.    *)
(* The memory of attempts and of stages is the browser's: every visit of   *)
(* the page reads and writes the same.                                     *)
(***************************************************************************)
EXTENDS DeploymentView

CONSTANTS
    Tracked,    \* the job the page is about
    MaxVisits,  \* bound: the visits of the page
    Overlap,    \* bound: the polls of one visit in flight at once
    PollsFail   \* whether a query may fail

ASSUME TrackerAssumption ==
    /\ Tracked \in Jobs
    /\ {MaxVisits, Overlap} \subseteq Nat \ {0}
    /\ PollsFail \in BOOLEAN

VARIABLES
    mount,      \* how far onMount of a visit has come
    onScreen,   \* the visit on screen, 0 for none
    shown,      \* the row each visit shows
    polls,      \* the loads and polls of a visit in flight
    memory,     \* the attempt memory of the job
    stageTimes  \* when each stage was first seen, 0 if not

installer == <<life, about, now>>
page == <<mount, onScreen, shown, polls, memory, stageTimes>>
trackerVars == <<installer, page>>

----------------------------------------------------------------------------
NoRow == [label |-> "loading"]
MountPhases == {"none", "loading", "loaded", "polling", "ended", "broken"}
Visits == 1 .. MaxVisits
Slots == 1 .. Overlap

(* A poll: nothing asked; the record read; the task read as well.          *)
Poll == [phase : {"idle"}] \union
        [phase : {"read", "answered"}, record : Records, task : Tasks]
Idle == [phase |-> "idle"]

TrackerTypeOK ==
    /\ JobQueriesTypeOK
    /\ mount \in [Visits -> MountPhases]
    /\ onScreen \in Visits \union {0}
    /\ polls \in [Visits \X Slots -> Poll]
    /\ memory \in Memory
    /\ stageTimes \in [Stages -> Nat]
    /\ \A v \in Visits : shown[v] = NoRow \/ shown[v].percent \in 0 .. 100

----------------------------------------------------------------------------
(* loadDeploymentRow.                                                      *)

(* get_deployment_job_status.  Of a job without a record the caller learns *)
(* nothing and does nothing.                                               *)
ReadsRecord(v, s) ==
    /\ polls[<<v, s>>] = Idle
    /\ life[Tracked] \notin {"none", "gone"}
    /\ polls' = [polls EXCEPT ![<<v, s>>] =
         [phase |-> IF FetchesTask(Record(Tracked)) THEN "read" ELSE "answered",
          record |-> Record(Tracked), task |-> NoTask]]
    /\ UNCHANGED <<installer, mount, onScreen, shown, memory, stageTimes>>

(* get_deploy_task_status: the task as it is by now.                       *)
ReadsTask(v, s) ==
    /\ polls[<<v, s>>].phase = "read"
    /\ polls' = [polls EXCEPT ![<<v, s>>] =
                    [@ EXCEPT !.phase = "answered", !.task = about[Tracked].task]]
    /\ UNCHANGED <<installer, mount, onScreen, shown, memory, stageTimes>>

(* A query is lost: the load fails, a poll is dropped.                     *)
LosesQuery(v, s) ==
    /\ PollsFail
    /\ polls[<<v, s>>] # Idle
    /\ polls' = [polls EXCEPT ![<<v, s>>] = Idle]
    /\ mount' = [mount EXCEPT ![v] = IF @ = "loading" THEN "broken" ELSE @]
    /\ UNCHANGED <<installer, onScreen, shown, memory, stageTimes>>

(* recordDeploymentStageObservation, after rememberJobAttempt has dropped  *)
(* the observations of an attempt that failed.                             *)
Observed(r, old) ==
    LET kept == IF ForgetsStages(memory, r) THEN [i \in Stages |-> 0] ELSE old IN
    [i \in Stages |->
        IF kept[i] > 0 THEN kept[i]
        ELSE IF i = ActiveStage(r) THEN now
        ELSE IF i = 0 /\ ActiveStage(r) > 0 THEN r.created ELSE 0]

(* The rest of a load or a poll: the attempt is remembered, the stage      *)
(* observed, the row shown.  The page applies rememberJobAttempt once more *)
(* to the row it shows, which changes nothing.                             *)
Shows(v, s) ==
    LET r == polls[<<v, s>>].record
        m == Remembered(memory, r, now)
    IN
    /\ polls[<<v, s>>].phase = "answered"
    /\ polls' = [polls EXCEPT ![<<v, s>>] = Idle]
    /\ memory' = m
    /\ stageTimes' = Observed(r, stageTimes)
    /\ shown' = [shown EXCEPT ![v] =
         IF onScreen = v \/ mount[v] = "loading" THEN Row(r, polls[<<v, s>>].task, m) ELSE NoRow]
    /\ UNCHANGED <<installer, onScreen>>

----------------------------------------------------------------------------
(* A visit.                                                                *)

OpensPage(v) ==
    /\ onScreen = 0
    /\ mount[v] = "none"
    /\ \A u \in Visits : u < v => mount[u] # "none"
    /\ onScreen' = v
    /\ mount' = [mount EXCEPT ![v] = "loading"]
    /\ UNCHANGED <<installer, shown, polls, memory, stageTimes>>

(* refresh, of the job or of nothing.                                      *)
Loads(v) == mount[v] = "loading" /\ ReadsRecord(v, 1)

FindsNoJob(v) ==
    /\ mount[v] = "loading"
    /\ polls[<<v, 1>>] = Idle
    /\ life[Tracked] \in {"none", "gone"}
    /\ mount' = [mount EXCEPT ![v] = "broken"]
    /\ UNCHANGED <<installer, onScreen, shown, polls, memory, stageTimes>>

LoadShows(v) ==
    /\ mount[v] = "loading"
    /\ Shows(v, 1)
    /\ mount' = [mount EXCEPT ![v] = "loaded"]

(* The manifest is loaded too: polling starts if the row asks for it, on   *)
(* screen or not.                                                          *)
StartsPolling(v) ==
    /\ mount[v] = "loaded"
    /\ mount' = [mount EXCEPT ![v] =
         IF IsActive(shown[v]) \/ shown[v].status = "failed" THEN "polling" ELSE "ended"]
    /\ shown' = [shown EXCEPT ![v] = IF onScreen = v THEN @ ELSE NoRow]
    /\ UNCHANGED <<installer, onScreen, polls, memory, stageTimes>>

Ticks(v, s) == mount[v] = "polling" /\ ReadsRecord(v, s)

(* Mutant of StopsPolling: a failed job is not polled any more.            *)
StopsAtAnyEnd(r) == r.status \in EndedStatuses

(* A failed job may be reopened: only the other ends stop the poller.      *)
StopsPolling(r) == r.status \notin LiveStatuses \union {"failed"}

(* A poll of a visit whose poller has stopped still does all this.         *)
TickShows(v, s) ==
    /\ mount[v] \in {"polling", "ended"}
    /\ Shows(v, s)
    /\ mount' = [mount EXCEPT ![v] = IF StopsPolling(polls[<<v, s>>].record) THEN "ended" ELSE @]

(* onDestroy stops the poller, if there is one yet.  What the page showed  *)
(* is gone with it, unless onMount still has to look at it.                *)
Unmounts(v) ==
    /\ onScreen' = 0
    /\ mount' = [mount EXCEPT ![v] = IF @ = "polling" THEN "ended" ELSE @]
    /\ shown' = [shown EXCEPT ![v] = IF mount[v] = "loaded" THEN @ ELSE NoRow]

LeavesPage(v) ==
    /\ onScreen = v
    /\ Unmounts(v)
    /\ UNCHANGED <<installer, polls, memory, stageTimes>>

(* confirmRemoveFailedDeployment: the installer decides by what the job is *)
(* now, and the page is left for the dashboard if it agrees.               *)
RemovesJob(v) ==
    /\ onScreen = v
    /\ shown[v] # NoRow
    /\ shown[v].status \in Failures
    /\ DeletesJob(Tracked)
    /\ Unmounts(v)
    /\ UNCHANGED <<polls, memory, stageTimes>>

----------------------------------------------------------------------------
TrackerInit ==
    /\ JobQueriesInit
    /\ mount = [v \in Visits |-> "none"]
    /\ onScreen = 0
    /\ shown = [v \in Visits |-> NoRow]
    /\ polls = [p \in Visits \X Slots |-> Idle]
    /\ memory = NoMemory
    /\ stageTimes = [i \in Stages |-> 0]

InstallerWorksOn(j) == InstallerMoves(j) /\ UNCHANGED page

TrackerNext ==
    \/ \E j \in Jobs : InstallerWorksOn(j)
    \/ \E v \in Visits :
         \/ OpensPage(v) \/ Loads(v) \/ FindsNoJob(v) \/ LoadShows(v) \/ StartsPolling(v)
         \/ LeavesPage(v) \/ RemovesJob(v)
         \/ \E s \in Slots :
              ReadsTask(v, s) \/ LosesQuery(v, s) \/ Ticks(v, s) \/ TickShows(v, s)

TrackerSpec == TrackerInit /\ [][TrackerNext]_trackerVars

(* The interval keeps ticking and queries are answered, though some fail.  *)
TrackerFairness ==
    \A v \in Visits :
      /\ WF_trackerVars(Loads(v)) /\ WF_trackerVars(LoadShows(v))
      /\ WF_trackerVars(StartsPolling(v))
      /\ \A s \in Slots :
           /\ WF_trackerVars(Ticks(v, s)) /\ SF_trackerVars(ReadsTask(v, s))
           /\ SF_trackerVars(TickShows(v, s))

FairTrackerSpec == TrackerSpec /\ TrackerFairness

----------------------------------------------------------------------------
(* Properties.                                                             *)

OnShow(v) == onScreen = v /\ shown[v] # NoRow

(* The clock of a retried attempt starts after the failure it follows, and *)
(* every stage is timed from a moment of that attempt, whichever visit saw *)
(* the failure and the retry.  (The first stage is timed from the job's    *)
(* creation.)                                                              *)
RetryClockFollowsFailure ==
    memory.auto =>
        /\ memory.startedAt >= memory.failedAt
        /\ \A i \in Stages \ {0} : stageTimes[i] > 0 => stageTimes[i] >= memory.startedAt

(* Within an attempt the bar never goes back, nor is a stage that was done *)
(* taken back: every phase starts no lower than the phase before it can    *)
(* end, with any number of steps, done or failed.                          *)
ProgressMovesForward ==
    [][\A v \in Visits :
         /\ shown[v] # NoRow /\ shown'[v] # NoRow
         /\ IsActive(shown[v]) /\ IsActive(shown'[v])
         /\ shown[v].ended = shown'[v].ended
         => /\ shown'[v].percent >= shown[v].percent
            /\ \A i \in Stages : shown[v].stages[i] = "done" => shown'[v].stages[i] = "done"
     ]_trackerVars

(* Whoever keeps watching a job sees it complete, unless the page is about *)
(* to hear of another end, from which a suspended pass has revived it.     *)
HearsOfEnd(v) ==
    \E s \in Slots : polls[<<v, s>>] # Idle /\
        polls[<<v, s>>].record.status \in {"cancelled", "failed_verification"}

EndIsShown ==
    \A v \in Visits :
      (mount[v] = "polling" /\ life[Tracked] = "completed" /\ ~ HearsOfEnd(v)) ~>
          [](onScreen = v => shown[v].label = "Complete")

(* "That must not be presented as a finished deployment": a job some of    *)
(* whose steps failed is not shown as complete.                            *)
PartialIsNotComplete ==
    \A v \in Visits : OnShow(v) /\ "failed" \in shown[v].steps =>
        shown[v].label # "Complete"
=============================================================================
